---- MODULE Spec2Model ----
(***************************************************************************)
(* Writing-provenance recorder: the hash-chained event recorder            *)
(* (src/core/recorder.js), the hasher (src/core/hasher.js) and the editor  *)
(* bridge that feeds the recorder (src/client/js/editorRecorder.js,        *)
(* editor.js, app.js).                                                     *)
(*                                                                         *)
(* Strings are sequences of UTF-16 code units (small naturals).  A digest  *)
(* is modelled as an injective function of the hashed string: the tagged   *)
(* tuple <<"sha256", data>>, which is never the empty string.  Event       *)
(* objects live on a heap and arrays hold references, so that the sharing  *)
(* between an array and its shallow copy is visible.                       *)
(***************************************************************************)
EXTENDS Integers, Sequences, FiniteSets, TLC

\* ------------------------------------------------------------------ bounds
\* recorder calls that reach their await (events hashed) in one run
MaxEvents == 3
\* the clock (Date.now()) runs over 0..MaxTime
MaxTime == 1
\* length of the text in the editor
MaxLen == 2
\* timers of one kind armed at a time
MaxTimers == 1
\* getEvents and loadEvents calls, and changes to the returned array, in one run
MaxCallerOps == 2
\* length of an event list handed to verifyHashChain
MaxChainLen == 2
\* sessions of a document
MaxSessions == 2
MaxSaves == 2
MaxFlushes == 1
MaxAttempts == 5

\* ------------------------------------------------------- values and inputs
\* null, for a position (no offset the editor computes is that small) and for a
\* timestamp
NullPos == -99
NullTime == -1
\* null, for a content: no string holds the code unit -1
NullContent == << -1 >>
\* the empty string, as a hash
EmptyHash == << >>

EventType == [INSERT |-> "insert", DELETE |-> "delete", PASTE |-> "paste",
              SESSION_START |-> "session_start", SESSION_END |-> "session_end"]

EditTypes == {EventType.INSERT, EventType.DELETE, EventType.PASTE}

\* the (position, content) arguments a caller passes to record*
EditArgs == {[position |-> 0, content |-> <<97>>], [position |-> 1, content |-> <<98>>]}

VARIABLES
    heap,              \* event objects: object id -> [type, timestamp, position, content, hash]
    events,            \* recorder: array of references to event objects
    lastHash,          \* recorder: hash the next event chains onto
    isRecording,       \* recorder: active flag
    sessionStartTime,  \* recorder: NullTime or the time of the last startSession
    pending,           \* recorder calls suspended at their await, in issue order
    ret,               \* what the last completed recorder call returned
    calls,             \* number of recorder calls that have reached their await
    now,               \* Date.now()
    got,               \* caller: the array a getEvents call returned
    callerOps,         \* caller: getEvents / loadEvents calls and changes to got so far
    value,             \* editor: textarea.value
    edLast,            \* editor.js: lastContent
    erLast,            \* editorRecorder.js: lastContent
    workHasBegun,      \* app.js: the first edit of the document has been seen
    sessionBaseContent,\* app.js: the text the document started from
    edTimers,          \* editor.js: armed setTimeout(0) callbacks of handlePaste
    erTimers,          \* editorRecorder.js: armed setTimeout(10) callbacks of handleEditorPaste
    listA,             \* verifier: an event list
    listB,             \* verifier: another event list
    tamperedAt,        \* verifier: 0, or the (1-based) index of listA that was altered
    validBefore,       \* verifier: what verifyHashChain said of listA before it was altered
    res,               \* verifier: the last results of verifyHashChain on A, B and A ++ B
    doc,               \* format: a provenance document
    finalizing,        \* format: finalizeDocument calls suspended at `await sha256(finalContent)`
    vres,              \* format: what validate(doc) returned
    pres,              \* format: the text given to parse and what parse did with it
    stats,             \* format: what getStatistics(doc) returned
    hashSetByHand,     \* format: doc.contentHash was written by hand since the last finalize
    currentFileHandle, \* app.js: whether the document has a file in the vault
    pendingAutoCreate, \* app.js: the file is still to be created on the first edit
    pendingContent,    \* autosave.js: the content waiting for the next interval tick, or null
    lastSavedContent,  \* autosave.js: the content of the last save
    persisted,         \* the vault: the document last written to the file
    autosave,          \* autosave.js: the rest of the module's state, its timers and saves
    desk,              \* app.js and the vault: two stored documents, the one that is open, its saves
    validated,         \* format: what validate returned for a parsed object
    viewer             \* viewer: flatEvents, currentEventIndex, isPlaying, playbackTimer, replayContent

recVars == <<heap, events, lastHash, isRecording, sessionStartTime, pending, ret, calls>>
callerVars == <<got, callerOps>>
appVars == <<value, edLast, erLast, workHasBegun, sessionBaseContent, edTimers, erTimers>>
chainVars == <<listA, listB, tamperedAt, validBefore, res>>
fmtVars == <<doc, finalizing, vres, pres, stats, hashSetByHand>>
saveVars == <<currentFileHandle, pendingAutoCreate, pendingContent, lastSavedContent, persisted,
              autosave, desk, validated, viewer>>
restVars == <<chainVars, fmtVars, saveVars>>
vars == <<recVars, now, callerVars, appVars, restVars>>

\* ------------------------------------------------------------------ hasher

\* sha256: injective, and never the empty string
Sha256(data) == <<"sha256", data>>

\* a serialization that leaves the payload (position, content) out
EventDataNoPayload(event, previousHash) ==
    <<event.type, event.timestamp, previousHash>>

\* JSON.stringify of {type, timestamp, position, content, previousHash} in this key order
EventData(event, previousHash) ==
    <<event.type, event.timestamp, event.position, event.content, previousHash>>

ComputeEventHash(event, previousHash) == Sha256(EventData(event, previousHash))

\* the loop of verifyHashChain from index i (1-based here, 0-based in the result)
RECURSIVE VerifyLoop(_, _, _)
VerifyLoop(evs, i, previousHash) ==
    IF i > Len(evs)
    THEN [valid |-> TRUE, brokenAt |-> NullPos, lastHash |-> previousHash]
    ELSE IF evs[i].hash # ComputeEventHash(evs[i], previousHash)
         THEN [valid |-> FALSE, brokenAt |-> i - 1, lastHash |-> previousHash]
         ELSE VerifyLoop(evs, i + 1, evs[i].hash)

\* a verifier that never advances previousHash
RECURSIVE VerifyLoopStale(_, _, _)
VerifyLoopStale(evs, i, previousHash) ==
    IF i > Len(evs)
    THEN [valid |-> TRUE, brokenAt |-> NullPos, lastHash |-> previousHash]
    ELSE IF evs[i].hash # ComputeEventHash(evs[i], previousHash)
         THEN [valid |-> FALSE, brokenAt |-> i - 1, lastHash |-> previousHash]
         ELSE VerifyLoopStale(evs, i + 1, previousHash)

\* whether the stored hash of event i differs from the hash recomputed from the
\* event and the stored hash of its predecessor (start for the first event)
Mismatch(evs, start, i) ==
    evs[i].hash # ComputeEventHash(evs[i], IF i = 1 THEN start ELSE evs[i - 1].hash)

\* a verifier that reports the last mismatch instead of the first
VerifyHashChainLast(evs, startingHash) ==
    IF Len(evs) = 0
    THEN [valid |-> TRUE, brokenAt |-> NullPos, lastHash |-> startingHash]
    ELSE LET r == VerifyLoop(evs, 1, startingHash)
             bad == {i \in DOMAIN evs : Mismatch(evs, startingHash, i)}
         IN IF r.valid THEN r
            ELSE [r EXCEPT !.brokenAt = (CHOOSE i \in bad : \A j \in bad : j <= i) - 1]

VerifyHashChainStale(evs, startingHash) ==
    IF Len(evs) = 0
    THEN [valid |-> TRUE, brokenAt |-> NullPos, lastHash |-> startingHash]
    ELSE VerifyLoopStale(evs, 1, startingHash)

VerifyHashChain(evs, startingHash) ==
    IF Len(evs) = 0
    THEN [valid |-> TRUE, brokenAt |-> NullPos, lastHash |-> startingHash]
    ELSE VerifyLoop(evs, 1, startingHash)

\* the decimal digits of n, as code units
RECURSIVE Decimal(_)
Decimal(n) == IF n < 10 THEN <<48 + n>> ELSE Decimal(n \div 10) \o <<48 + (n % 10)>>

\* ------------------------------------------------------ format: documents

\* '1.0.0'
FORMAT_VERSION == <<49, 46, 48, 46, 48>>

\* 'Untitled'
Untitled == <<85, 110, 116, 105, 116, 108, 101, 100>>

\* new Date(t).toISOString(): a string, one for each instant; new Date(null)
\* is the epoch
ToISOString(t) == <<84>> \o Decimal(IF t = NullTime THEN 0 ELSE t)

CreateProvenanceDocument(title) ==
    [version |-> FORMAT_VERSION,
     metadata |-> [title |-> title, createdAt |-> ToISOString(now),
                   lastModifiedAt |-> ToISOString(now), editorVersion |-> FORMAT_VERSION],
     sessions |-> << >>,
     finalContent |-> << >>,
     contentHash |-> EmptyHash]

\* no file written yet
NoFile == [written |-> FALSE, finalContent |-> << >>, sessions |-> << >>]

\* CONFIG.MAX_RETRIES
MAX_RETRIES == 3

\* no flushAndWait has resolved in the last step
NoFlush ==
    [done |-> FALSE, value |-> FALSE, undisturbed |-> FALSE, saving |-> FALSE,
     saved |-> NullContent, scheduled |-> NullContent, invoked |-> FALSE]

\* no forceSave has resolved in the last step
NoForce ==
    [done |-> FALSE, value |-> FALSE, invoked |-> FALSE, content |-> NullContent,
     savedBefore |-> NullContent, sameAtCall |-> FALSE, busyAtCall |-> FALSE]

\* autosave.js after initAutosave({onSave, initialContent: ''}): the module's
\* variables (pendingContent and lastSavedContent are variables of their own;
\* savePromise is 0 for null, else the number of the save whose promise it is),
\* the invocations of the save callback that have not settled (inFlight), the
\* retry timers set (retryTimers, each with the content it will save), the
\* flushAndWait calls that have not resolved (flushers), what the last
\* flushAndWait resolved with (flushed), and the content of the latest
\* scheduleAutosave call made with a file handle (lastScheduled), and how many
\* of the retry timers, oldest first, were set before the last resetAutosave
\* (staleTimers); the saves forceSave calls are waiting for (forceCalls) and
\* what the last forceSave resolved with (forced)
InitialAutosave ==
    [intervalTimer |-> FALSE, isDirtyFlag |-> FALSE, retryCount |-> 0,
     isAutoSaving |-> FALSE, savePromise |-> 0, inFlight |-> {}, nextId |-> 1,
     retryTimers |-> << >>, flushers |-> << >>, flushed |-> NoFlush,
     lastScheduled |-> NullContent, staleTimers |-> 0, forceCalls |-> {},
     forced |-> NoForce]

\* validate not called on the document as it is now
\* the vault holds two stored documents; a session and a content carry the document
\* whose editing produced them
Files == {"A", "B"}
NoHandle == "none"
StoredSession(f) == [id |-> <<"stored", f>>, of |-> f]
StoredDocument(f) ==
    [sessions |-> <<StoredSession(f)>>, finalContent |-> [of |-> f, v |-> 0]]
NoPending == [of |-> NoHandle, v |-> -1]

\* app.js before a file is opened, with the part of autosave.js its saves go through
InitialDesk ==
    [files |-> [f \in Files |-> StoredDocument(f)],
     currentDocument |-> [sessions |-> << >>, finalContent |-> [of |-> NoHandle, v |-> 0]],
     currentFileHandle |-> NoHandle,
     currentSessionId |-> <<"new", 0>>,
     workHasBegun |-> FALSE,
     recorded |-> FALSE,
     content |-> [of |-> NoHandle, v |-> 0],
     pendingContent |-> NoPending,
     lastSavedContent |-> [of |-> NoHandle, v |-> 0],
     isAutoSaving |-> FALSE,
     saves |-> << >>,
     retryTimers |-> << >>,
     invoked |-> 0,
     edits |-> 0,
     opened |-> 0]

\* the viewer before a file is loaded
InitialViewer ==
    [flatEvents |-> << >>, currentEventIndex |-> 0, isPlaying |-> FALSE,
     playbackTimer |-> FALSE, replayContent |-> << >>]

\* validate has not been given a parsed object
NoObjectValidation ==
    [done |-> FALSE, object |-> <<"null">>, threw |-> FALSE, valid |-> FALSE, errors |-> << >>]

NoValidation == [done |-> FALSE, valid |-> FALSE, errors |-> << >>]

\* getStatistics not called on the document as it is now
NoStatistics ==
    [done |-> FALSE,
     result |-> [sessionCount |-> 0, totalEvents |-> 0, insertEvents |-> 0,
                 deleteEvents |-> 0, pasteEvents |-> 0, totalCharsTyped |-> 0,
                 totalCharsDeleted |-> 0, totalCharsPasted |-> 0,
                 totalWritingTimeMs |-> 0, totalWritingTimeFormatted |-> << >>,
                 pasteRatio |-> <<0, 1>>, finalContentLength |-> 0]]

\* parse not called
NoParse == [done |-> FALSE, threw |-> FALSE, text |-> <<"null">>, value |-> <<"null">>]

\* ---------------------------------------------------------------- recorder

Range(s) == {s[i] : i \in DOMAIN s}

\* the event objects an array of references denotes
Deref(h, arr) == [i \in DOMAIN arr |-> h[arr[i]]]

EventList == Deref(heap, events)

\* a fresh object id
NewId(h) == CHOOSE i \in 1..(Cardinality(DOMAIN h) + 1) :
                i \notin DOMAIN h /\ \A j \in 1..(i - 1) : j \in DOMAIN h

\* the heap with a new object
Alloc(h, e) == [o \in (DOMAIN h) \cup {NewId(h)} |-> IF o = NewId(h) THEN e ELSE h[o]]

\* the heap restricted to the objects some array still refers to
Collect(h, roots) == [i \in (DOMAIN h) \cap roots |-> h[i]]

RemoveAt(s, i) == [j \in 1..(Len(s) - 1) |-> IF j < i THEN s[j] ELSE s[j + 1]]

NoRet == [op |-> "none", null |-> TRUE, time |-> NullTime]

\* the run may hash n more events
RoomFor(n) == calls + n <= MaxEvents

\* a call suspended at `await computeEventHash(event, lastHash)`: the event built
\* so far, the previous hash the call passed, and what the caller of the call
\* does once the call has returned (cont)
SuspendedCall(op, type, position, content, prev, cont, contVal) ==
    [op |-> op, type |-> type, timestamp |-> now, position |-> position,
     content |-> content, prev |-> prev, cont |-> cont, contVal |-> contVal]

\* a call that hashes its event without the previous hash
SuspendedUnchained(op, type, position, content) ==
    SuspendedCall(op, type, position, content, EmptyHash, "none", << >>)

Suspended(op, type, position, content) ==
    SuspendedCall(op, type, position, content, lastHash, "none", << >>)

Init ==
    /\ heap = << >>
    /\ events = << >>
    /\ lastHash = EmptyHash
    /\ isRecording = FALSE
    /\ sessionStartTime = NullTime
    /\ pending = << >>
    /\ ret = NoRet
    /\ calls = 0
    /\ now = 0
    /\ got = << >>
    /\ callerOps = 0
    /\ value = << >>
    /\ edLast = << >>
    /\ erLast = << >>
    /\ workHasBegun = FALSE
    /\ sessionBaseContent = << >>
    /\ edTimers = 0
    /\ erTimers = 0
    /\ listA = << >>
    /\ listB = << >>
    /\ tamperedAt = 0
    /\ validBefore = FALSE
    /\ res = [w \in {"A", "B", "AB"} |-> [done |-> FALSE, valid |-> FALSE, brokenAt |-> NullPos, lastHash |-> EmptyHash]]
    /\ doc = CreateProvenanceDocument(Untitled)
    /\ finalizing = << >>
    /\ vres = NoValidation
    /\ pres = NoParse
    /\ stats = NoStatistics
    /\ hashSetByHand = FALSE
    /\ currentFileHandle = FALSE
    /\ pendingAutoCreate = TRUE
    /\ pendingContent = NullContent
    /\ lastSavedContent = << >>
    /\ persisted = NoFile
    /\ autosave = InitialAutosave
    /\ desk = InitialDesk
    /\ validated = NoObjectValidation
    /\ viewer = InitialViewer

\* startSession up to its await
StartSession ==
    /\ RoomFor(1)
    /\ isRecording' = TRUE
    /\ sessionStartTime' = now
    /\ pending' = Append(pending,
           Suspended("startSession", EventType.SESSION_START, NullPos, NullContent))
    /\ calls' = calls + 1
    /\ UNCHANGED <<heap, events, lastHash, ret, now, callerVars, appVars, restVars>>

\* endSession: the early return, or up to its await
EndSession ==
    IF ~isRecording
    THEN /\ ret' = [op |-> "endSession", null |-> TRUE, time |-> NullTime]
         /\ UNCHANGED <<heap, events, lastHash, isRecording, sessionStartTime, pending, calls,
                        now, callerVars, appVars, restVars>>
    ELSE /\ RoomFor(1)
         /\ pending' = Append(pending,
                Suspended("endSession", EventType.SESSION_END, NullPos, NullContent))
         /\ calls' = calls + 1
         /\ UNCHANGED <<heap, events, lastHash, isRecording, sessionStartTime, ret,
                        now, callerVars, appVars, restVars>>

\* a record call without the early return
RecordUnguarded(op, type, position, content) ==
    /\ RoomFor(1)
    /\ pending' = Append(pending, Suspended(op, type, position, content))
    /\ calls' = calls + 1
    /\ UNCHANGED <<heap, events, lastHash, isRecording, sessionStartTime, ret,
                   now, callerVars, appVars, restVars>>

\* recordInsert / recordDelete / recordPaste: the early return, or up to the await
Record(op, type, position, content) ==
    IF ~isRecording
    THEN /\ ret' = [op |-> op, null |-> TRUE, time |-> NullTime]
         /\ UNCHANGED <<heap, events, lastHash, isRecording, sessionStartTime, pending, calls,
                        now, callerVars, appVars, restVars>>
    ELSE /\ RoomFor(1)
         /\ pending' = Append(pending, Suspended(op, type, position, content))
         /\ calls' = calls + 1
         /\ UNCHANGED <<heap, events, lastHash, isRecording, sessionStartTime, ret,
                        now, callerVars, appVars, restVars>>

RecordInsert(position, content) == Record("recordInsert", EventType.INSERT, position, content)

RecordDelete(position, content) == Record("recordDelete", EventType.DELETE, position, content)

RecordPaste(position, content) == Record("recordPaste", EventType.PASTE, position, content)

\* the event a suspended call completes: event.hash = <the awaited digest>
Hashed(c) ==
    [type |-> c.type, timestamp |-> c.timestamp, position |-> c.position,
     content |-> c.content, hash |-> ComputeEventHash(c, c.prev)]

\* what a call returns once it has appended its event: a timestamp for
\* startSession / endSession, the event (here: not null, and its timestamp) otherwise
Returned(c) == [op |-> c.op, null |-> FALSE, time |-> c.timestamp]

\* a suspended call resumes: the digest arrives, lastHash and events are
\* updated, the call returns and its caller continues (handleEditorChange after
\* `await recorder.startSession()`: the file is created in the vault, which is
\* taken to be ready, and the content of the edit scheduled for autosave)
Resume(i) ==
    /\ i \in DOMAIN pending
    /\ LET c == pending[i]
           e == Hashed(c)
       IN /\ lastHash' = e.hash
          /\ heap' = Alloc(heap, e)
          /\ events' = Append(events, NewId(heap))
          /\ isRecording' = IF c.op = "endSession" THEN FALSE ELSE isRecording
          /\ ret' = Returned(c)
          /\ erLast' = IF c.cont = "lastContent" THEN c.contVal ELSE erLast
          /\ erTimers' = IF c.cont = "pasteTimer" THEN erTimers + 1 ELSE erTimers
          /\ LET begun == c.cont = "workBegun"
                 create == begun /\ pendingAutoCreate /\ workHasBegun
             IN /\ pendingAutoCreate' = IF begun THEN FALSE ELSE pendingAutoCreate
                /\ currentFileHandle' = (currentFileHandle \/ create)
                /\ persisted' = IF create
                                THEN [written |-> TRUE, finalContent |-> << >>, sessions |-> << >>]
                                ELSE persisted
                /\ pendingContent' =
                       IF begun /\ currentFileHandle' /\ workHasBegun
                                /\ c.contVal # lastSavedContent
                       THEN c.contVal ELSE pendingContent
    /\ pending' = RemoveAt(pending, i)
    /\ UNCHANGED <<sessionStartTime, calls, now, callerVars, value, edLast, workHasBegun,
                   sessionBaseContent, edTimers, chainVars, fmtVars, lastSavedContent,
                   autosave, desk, validated, viewer>>

\* a clear that leaves lastHash as it is
ClearKeepsHash ==
    /\ events' = << >>
    /\ isRecording' = FALSE
    /\ sessionStartTime' = NullTime
    /\ heap' = Collect(heap, Range(got))
    /\ UNCHANGED <<lastHash, pending, ret, calls, now, callerVars, appVars, restVars>>

\* clear()
Clear ==
    /\ events' = << >>
    /\ lastHash' = EmptyHash
    /\ isRecording' = FALSE
    /\ sessionStartTime' = NullTime
    /\ heap' = Collect(heap, Range(got))
    /\ UNCHANGED <<pending, ret, calls, now, callerVars, appVars, restVars>>

\* the clock advances
Tick ==
    /\ now < MaxTime
    /\ now' = now + 1
    /\ UNCHANGED <<recVars, callerVars, appVars, restVars>>

\* the recorder, its callers not awaiting a call before issuing the next
Next ==
    \/ StartSession
    \/ EndSession
    \/ \E a \in EditArgs : RecordInsert(a.position, a.content)
    \/ \E a \in EditArgs : RecordDelete(a.position, a.content)
    \/ \E a \in EditArgs : RecordPaste(a.position, a.content)
    \/ \E i \in 1..MaxEvents : Resume(i)
    \/ Clear
    \/ Tick

Spec == Init /\ [][Next]_vars

\* the recorder, each call awaited before the next is issued
Awaited == pending = << >>

NextSeq ==
    \/ Awaited /\ StartSession
    \/ Awaited /\ EndSession
    \/ Awaited /\ \E a \in EditArgs : RecordInsert(a.position, a.content)
    \/ Awaited /\ \E a \in EditArgs : RecordDelete(a.position, a.content)
    \/ Awaited /\ \E a \in EditArgs : RecordPaste(a.position, a.content)
    \/ \E i \in 1..MaxEvents : Resume(i)
    \/ Awaited /\ Clear
    \/ Tick

SpecSeq == Init /\ [][NextSeq]_vars

\* the recorder, startSession awaited and the other calls not
Started == \A k \in DOMAIN pending : pending[k].op # "startSession"

NextUnawaited ==
    \/ Awaited /\ StartSession
    \/ Started /\ EndSession
    \/ Started /\ \E a \in EditArgs : RecordInsert(a.position, a.content)
    \/ Started /\ \E a \in EditArgs : RecordDelete(a.position, a.content)
    \/ Started /\ \E a \in EditArgs : RecordPaste(a.position, a.content)
    \/ \E i \in 1..MaxEvents : Resume(i)
    \/ Awaited /\ Clear
    \/ Tick

SpecUnawaited == Init /\ [][NextUnawaited]_vars

\* ------------------------------------------------- claims on the recorder

\* whether index i of a list is an event of the given type
IsType(evs, i, t) == i \in DOMAIN evs /\ evs[i].type = t

\* the chain invariant of the data model
ChainInvariant(evs) ==
    \A i \in DOMAIN evs :
        evs[i].hash = ComputeEventHash(evs[i], IF i = 1 THEN EmptyHash ELSE evs[i - 1].hash)

\* C1: with every recorder call awaited before the next is issued, from a fresh
\* or cleared recorder, the event list satisfies the chain invariant, and
\* verifyHashChain(getEvents(), "") returns valid = true.
C1_AwaitedCallsKeepChain ==
    /\ ChainInvariant(EventList)
    /\ VerifyHashChain(EventList, EmptyHash) =
           [valid |-> TRUE, brokenAt |-> NullPos, lastHash |-> lastHash]

\* C1 witness: a whole awaited session, start, an edit, end, has been recorded
C1_Witness ==
    /\ Awaited
    /\ Len(events) = 3
    /\ IsType(EventList, 1, EventType.SESSION_START)
    /\ EventList[2].type \in EditTypes
    /\ IsType(EventList, 3, EventType.SESSION_END)

\* C2: concurrent record calls are serialized: no two record calls in flight
\* were hashed against the same lastHash, and the event list verifies as a
\* valid chain once the calls have completed.  (Stated for the record calls
\* alone: no startSession or endSession is in flight.)
C2_ConcurrentCallsSerialized ==
    (\A k \in DOMAIN pending : pending[k].type \in EditTypes) =>
        /\ \A i, j \in DOMAIN pending : i # j => pending[i].prev # pending[j].prev
        /\ pending = << >> => VerifyHashChain(EventList, EmptyHash).valid

\* C5: every session_start the recorder produces on an inactive recorder is
\* hashed with previousHash = "", whatever the recorder did before.
C5_SessionStartFromEmptyHash ==
    [][(StartSession /\ ~isRecording) => pending'[Len(pending')].prev = EmptyHash]_vars

\* C7: startSession on an active recorder fails or resets: the event list never
\* holds two session_start events that belong to one session (no session_end
\* between them).
C7_OneSessionStartPerSession ==
    \A i, j \in DOMAIN events :
        (i < j /\ IsType(EventList, i, EventType.SESSION_START)
               /\ IsType(EventList, j, EventType.SESSION_START))
            => \E k \in (i + 1)..(j - 1) : IsType(EventList, k, EventType.SESSION_END)

\* C8: on an inactive recorder recordInsert, recordDelete, recordPaste and
\* endSession return null and leave events, lastHash, the active flag and
\* sessionStartTime (and the calls in flight) as they were.
C8_InactiveCallsAreNoOps ==
    [][(/\ ~isRecording
        /\ \/ EndSession
           \/ \E a \in EditArgs : \/ RecordInsert(a.position, a.content)
                                  \/ RecordDelete(a.position, a.content)
                                  \/ RecordPaste(a.position, a.content))
       => (/\ ret'.null
           /\ UNCHANGED <<heap, events, lastHash, isRecording, sessionStartTime, pending>>)]_vars

\* C8 witness: a record call has returned null on a recorder whose session has
\* ended, the events of that session still in place
C8_Witness ==
    /\ ~isRecording
    /\ ret.null /\ ret.op \in {"recordInsert", "recordDelete", "recordPaste"}
    /\ Len(events) >= 2
    /\ IsType(EventList, Len(events), EventType.SESSION_END)

\* C9: session_end is the last event of its session: no insert, delete or paste
\* is appended after a session_end until the next session_start.
C9_SessionEndIsLast ==
    \A i \in DOMAIN events :
        (IsType(EventList, i, EventType.SESSION_END) /\ i < Len(events))
            => EventList[i + 1].type \notin EditTypes

\* C24: within one session's event list the timestamps are non-decreasing in
\* append order, the clock being non-decreasing, whatever the interleaving of
\* recorder calls and digest completions
C24_TimestampsNonDecreasing ==
    \A i \in DOMAIN events :
        (i < Len(events) /\ ~IsType(EventList, i + 1, EventType.SESSION_START))
            => EventList[i].timestamp <= EventList[i + 1].timestamp

\* the state createRecorder() starts in
Fresh ==
    /\ events = << >>
    /\ lastHash = EmptyHash
    /\ ~isRecording
    /\ sessionStartTime = NullTime

GetEvents ==
    /\ callerOps < MaxCallerOps
    /\ callerOps' = callerOps + 1
    /\ got' = events
    /\ heap' = Collect(heap, Range(events))
    /\ UNCHANGED <<events, lastHash, isRecording, sessionStartTime, pending, ret, calls,
                   now, appVars, restVars>>

\* an event object the caller makes up
CallerEvent ==
    [type |-> EventType.INSERT, timestamp |-> now, position |-> 0, content |-> <<99>>,
     hash |-> EmptyHash]

\* the (field, value) writes the caller makes to an event of the returned array
CallerWrites ==
    {<<"content", <<99>>>>, <<"hash", EmptyHash>>}

\* the caller adds an element to the array it was given
GotPush ==
    /\ callerOps < MaxCallerOps
    /\ callerOps' = callerOps + 1
    /\ got' = Append(got, NewId(heap))
    /\ heap' = Alloc(heap, CallerEvent)
    /\ UNCHANGED <<events, lastHash, isRecording, sessionStartTime, pending, ret, calls,
                   now, appVars, restVars>>

\* the caller removes the last element of the array it was given
GotPop ==
    /\ callerOps < MaxCallerOps
    /\ callerOps' = callerOps + 1
    /\ Len(got) > 0
    /\ got' = SubSeq(got, 1, Len(got) - 1)
    /\ heap' = Collect(heap, Range(events) \cup Range(got'))
    /\ UNCHANGED <<events, lastHash, isRecording, sessionStartTime, pending, ret, calls,
                   now, appVars, restVars>>

\* the caller reorders the array it was given (its first two elements)
GotSwap ==
    /\ callerOps < MaxCallerOps
    /\ callerOps' = callerOps + 1
    /\ Len(got) >= 2
    /\ got[1] # got[2]
    /\ got' = [got EXCEPT ![1] = got[2], ![2] = got[1]]
    /\ UNCHANGED <<recVars, now, appVars, restVars>>

\* the caller writes a field of an element of the array it was given
GotSetField(i, w) ==
    /\ i \in DOMAIN got
    /\ heap[got[i]][w[1]] # w[2]
    /\ heap' = [heap EXCEPT ![got[i]] = [@ EXCEPT ![w[1]] = w[2]]]
    /\ UNCHANGED <<events, lastHash, isRecording, sessionStartTime, pending, ret, calls,
                   now, callerVars, appVars, restVars>>

CallerMutation ==
    \/ GotPush
    \/ GotPop
    \/ GotSwap
    \/ \E i \in 1..MaxEvents, w \in CallerWrites : GotSetField(i, w)

\* loadEvents(existingEvents), with the array the caller holds
LoadEvents ==
    /\ callerOps < MaxCallerOps
    /\ callerOps' = callerOps + 1
    /\ events' = got
    /\ lastHash' = IF Len(got) > 0 THEN heap[got[Len(got)]].hash ELSE lastHash
    /\ heap' = Collect(heap, Range(got))
    /\ UNCHANGED <<isRecording, sessionStartTime, pending, ret, calls,
                   now, got, appVars, restVars>>

\* the recorder and a caller that keeps, alters and hands back what getEvents
\* returned, each asynchronous call awaited
NextCaller ==
    \/ Awaited /\ StartSession
    \/ Awaited /\ EndSession
    \/ Awaited /\ RecordInsert(0, <<97>>)
    \/ \E i \in 1..MaxEvents : Resume(i)
    \/ Awaited /\ Clear
    \/ Awaited /\ GetEvents
    \/ Awaited /\ CallerMutation
    \/ Awaited /\ LoadEvents

SpecCaller == Init /\ [][NextCaller]_vars

\* C10: getEvents returns a defensive copy: nothing the caller does to the
\* returned value (adding, removing or reordering elements, writing a field of a
\* returned event) changes what a later getEvents returns or the lastHash the
\* next event chains onto.
C10_GetEventsDefensiveCopy ==
    [][CallerMutation => (EventList' = EventList /\ lastHash' = lastHash)]_vars

\* C11: loadEvents(E) replaces the event list with E and, when E is a valid
\* chain, leaves lastHash equal to the hash that chain ends with (the hash of
\* E's last event; "" for a chain of no events), which is the hash the next
\* recorded event has to be chained onto for the list to stay one valid chain.
C11_LoadEventsResumesChain ==
    [][(LoadEvents /\ VerifyHashChain(Deref(heap, got), EmptyHash).valid)
          => (/\ EventList' = Deref(heap, got)
              /\ lastHash' = VerifyHashChain(EventList', EmptyHash).lastHash)]_vars

\* C35: a clear() issued while an earlier record or startSession call is still
\* awaiting its hash leaves the recorder fresh: when that call resumes (the
\* recorder being as clear() left it, which a call issued after the clear
\* would have changed), events stays empty and lastHash stays ""
C35_ClearSurvivesPendingCall ==
    [][\A i \in DOMAIN pending :
           (Fresh /\ Resume(i)) => (events' = << >> /\ lastHash' = EmptyHash)]_vars

\* C34: whenever no recorder call is in flight, lastHash is the hash of the
\* last event of the recorder's list, or "" when the list is empty, after any
\* sequence of startSession, record*, endSession, loadEvents (of an empty list
\* on a recorder that holds events too) and clear
C34_LastHashIsHashOfLastEvent ==
    Awaited => lastHash = (IF events = << >> THEN EmptyHash
                           ELSE EventList[Len(events)].hash)

\* ------------------------------------------------- the editor and the app

Min(a, b) == IF a < b THEN a ELSE b
Max(a, b) == IF a < b THEN b ELSE a
Clamp(x, n) == Max(0, Min(x, n))

\* String.prototype.substring(a, b): both ends clamped to the string, swapped
\* when a > b
Substring(str, a, b) ==
    SubSeq(str, Min(Clamp(a, Len(str)), Clamp(b, Len(str))) + 1,
                Max(Clamp(a, Len(str)), Clamp(b, Len(str))))

\* the template string `[${length} chars]`
Placeholder(length) == <<91>> \o Decimal(length) \o <<32, 99, 104, 97, 114, 115, 93>>

FindDeletedContent(oldContent, newContent, position, length) ==
    IF Substring(oldContent, 0, position)
           \o Substring(oldContent, position + length, Len(oldContent)) = newContent
    THEN Substring(oldContent, position, position + length)
    ELSE Placeholder(length)

\* the text with the selection [s, e) replaced by t
Splice(str, s, e, t) == SubSeq(str, 1, s) \o t \o SubSeq(str, e + 1, Len(str))

\* the characters a user types or pastes
Typed == {<<97>>, <<98>>}

\* the textarea's input event, the paste event (if any) already handled and
\* pend0 the calls then in flight: handleInput of editor.js, which calls
\* handleEditorChange of app.js (up to `await recorder.startSession()`) and
\* dispatches editor-input to handleEditorInput of editorRecorder.js (up to
\* its `await recorder.record*()`), all in one task
HandleInput(newContent, cursorPosition, fromPaste, pend0) ==
    LET startNow == ~workHasBegun /\ newContent # sessionBaseContent
        pend1 == IF startNow
                 THEN Append(pend0, SuspendedCall("startSession", EventType.SESSION_START,
                                                  NullPos, NullContent, lastHash,
                                                  "workBegun", newContent))
                 ELSE pend0
        active == startNow \/ isRecording
        dispatched == \/ Len(newContent) > Len(edLast) /\ ~fromPaste
                      \/ Len(newContent) < Len(edLast)
        handled == dispatched /\ active
        insertedLength == Len(newContent) - Len(erLast)
        insertPosition == cursorPosition - insertedLength
        deletedLength == Len(erLast) - Len(newContent)
        recIns == handled /\ insertedLength > 0 /\ ~fromPaste
        recDel == handled /\ deletedLength > 0
        pend2 == IF recIns
                 THEN Append(pend1, SuspendedCall("recordInsert", EventType.INSERT,
                          insertPosition, Substring(newContent, insertPosition, cursorPosition),
                          lastHash, "lastContent", newContent))
                 ELSE IF recDel
                 THEN Append(pend1, SuspendedCall("recordDelete", EventType.DELETE,
                          cursorPosition,
                          FindDeletedContent(erLast, newContent, cursorPosition, deletedLength),
                          lastHash, "lastContent", newContent))
                 ELSE pend1
    IN /\ RoomFor(Len(pend2) - Len(pending))
       /\ pending' = pend2
       /\ calls' = calls + Len(pend2) - Len(pending)
       /\ workHasBegun' = (workHasBegun \/ startNow)
       /\ isRecording' = active
       /\ sessionStartTime' = IF startNow THEN now ELSE sessionStartTime
       /\ erLast' = IF handled /\ ~recIns /\ ~recDel THEN newContent ELSE erLast
       /\ edLast' = newContent
       /\ value' = newContent
       /\ pendingContent' = IF ~startNow /\ currentFileHandle /\ workHasBegun
                                       /\ newContent # lastSavedContent
                            THEN newContent ELSE pendingContent
       /\ UNCHANGED <<heap, events, lastHash, ret, now, callerVars, sessionBaseContent,
                      chainVars, fmtVars, currentFileHandle, pendingAutoCreate,
                      lastSavedContent, persisted, autosave, desk, validated, viewer>>

\* the user types t over the selection [s, e) of the textarea (t empty: deletes it)
UserInput(s, e, t) ==
    /\ s <= e /\ e <= Len(value)
    /\ s < e \/ t # << >>
    /\ Len(value) - (e - s) + Len(t) <= MaxLen
    /\ HandleInput(Splice(value, s, e, t), s + Len(t), FALSE, pending)
    /\ UNCHANGED <<edTimers, erTimers>>

\* paste timers armed or about to be armed by a call in flight
PasteTimers == erTimers + Cardinality({k \in DOMAIN pending : pending[k].cont = "pasteTimer"})

\* the user pastes t over the selection [s, e): the paste event (handlePaste of
\* editor.js, handleEditorPaste of editorRecorder.js up to its await), then the
\* textarea's own insertion and its input event
UserPaste(s, e, t) ==
    /\ s <= e /\ e <= Len(value)
    /\ Len(value) - (e - s) + Len(t) <= MaxLen
    /\ edTimers < MaxTimers /\ PasteTimers < MaxTimers
    /\ HandleInput(Splice(value, s, e, t), s + Len(t), TRUE,
                   IF isRecording
                   THEN Append(pending, SuspendedCall("recordPaste", EventType.PASTE, s, t,
                                                      lastHash, "pasteTimer", << >>))
                   ELSE pending)
    /\ edTimers' = edTimers + 1
    /\ UNCHANGED erTimers

\* setTimeout(() => { lastContent = textareaElement.value }, 0) of handlePaste
EdTimerFires ==
    /\ edTimers > 0
    /\ edTimers' = edTimers - 1
    /\ edLast' = value
    /\ UNCHANGED <<recVars, now, callerVars, value, erLast, workHasBegun, sessionBaseContent,
                   erTimers, restVars>>

\* setTimeout(() => { lastContent = textarea.value }, 10) of handleEditorPaste
ErTimerFires ==
    /\ erTimers > 0
    /\ erTimers' = erTimers - 1
    /\ erLast' = value
    /\ UNCHANGED <<recVars, now, callerVars, value, edLast, workHasBegun, sessionBaseContent,
                   edTimers, restVars>>

\* newDocument(): the editor is emptied (setEditorContent('') calls
\* handleEditorChange(''), which starts nothing), the recorder and the autosave
\* reset
NewDocument ==
    /\ sessionBaseContent' = << >>
    /\ workHasBegun' = FALSE
    /\ value' = << >>
    /\ edLast' = << >>
    /\ erLast' = << >>
    /\ events' = << >>
    /\ lastHash' = EmptyHash
    /\ isRecording' = FALSE
    /\ sessionStartTime' = NullTime
    /\ heap' = Collect(heap, Range(got))
    /\ currentFileHandle' = FALSE
    /\ pendingAutoCreate' = TRUE
    /\ lastSavedContent' = << >>
    /\ pendingContent' = NullContent
    /\ UNCHANGED <<pending, ret, calls, now, callerVars, edTimers, erTimers,
                   chainVars, fmtVars, persisted, autosave, desk, validated, viewer>>

\* the editor, the app and the recorder behind them
NextEditor ==
    \/ \E s \in 0..MaxLen, e \in 0..MaxLen, t \in Typed \cup {<< >>} : UserInput(s, e, t)
    \/ \E s \in 0..MaxLen, e \in 0..MaxLen, t \in Typed : UserPaste(s, e, t)
    \/ EdTimerFires
    \/ ErTimerFires
    \/ \E i \in 1..MaxEvents : Resume(i)
    \/ NewDocument

SpecEditor == Init /\ [][NextEditor]_vars

\* a tick of the autosave interval that finds content to save: performAutosave
\* of autosave.js calls performAutosave of app.js, which takes the recorded
\* events as they are now, puts them in the document's session, finalizes the
\* document with the content it was given and writes it to the file; the save
\* succeeds.  (With no file, no work begun or no event recorded the callback
\* returns without writing, which autosave.js takes for a save.)
IntervalTick ==
    /\ pendingContent # NullContent
    /\ pendingContent # lastSavedContent
    /\ persisted' = IF currentFileHandle /\ workHasBegun /\ Len(events) > 0
                    THEN [written |-> TRUE, finalContent |-> pendingContent,
                          sessions |-> <<[baseContent |-> sessionBaseContent,
                                          events |-> EventList]>>]
                    ELSE persisted
    /\ lastSavedContent' = pendingContent
    /\ pendingContent' = NullContent
    /\ UNCHANGED <<recVars, now, callerVars, appVars, chainVars, fmtVars,
                   currentFileHandle, pendingAutoCreate, autosave, desk, validated, viewer>>

\* the editor with autosave
NextSave ==
    \/ \E s \in 0..MaxLen, e \in 0..MaxLen, t \in Typed \cup {<< >>} : UserInput(s, e, t)
    \/ \E i \in 1..MaxEvents : Resume(i)
    \/ IntervalTick
    \/ NewDocument

SpecSave == Init /\ [][NextSave]_vars

\* the same, the user waiting for the recorder calls and the timers of one
\* edit to finish before making the next
Settled == pending = << >> /\ edTimers = 0 /\ erTimers = 0

NextEditorSeq ==
    \/ Settled /\ \E s \in 0..MaxLen, e \in 0..MaxLen, t \in Typed \cup {<< >>} : UserInput(s, e, t)
    \/ Settled /\ \E s \in 0..MaxLen, e \in 0..MaxLen, t \in Typed : UserPaste(s, e, t)
    \/ EdTimerFires
    \/ ErTimerFires
    \/ \E i \in 1..MaxEvents : Resume(i)
    \/ Settled /\ NewDocument

SpecEditorSeq == Init /\ [][NextEditorSeq]_vars

\* C3: startSession completes before any record call is accepted: no record
\* call is in flight behind a startSession still in flight, session_start is
\* event 0, and the first insert, delete or paste is hashed with the
\* session_start event's hash as previousHash.
C3_SessionStartCompletesFirst ==
    /\ \A i, j \in DOMAIN pending :
           (i < j /\ pending[i].op = "startSession") => pending[j].type \notin EditTypes
    /\ Len(events) >= 1 => IsType(EventList, 1, EventType.SESSION_START)
    /\ (Len(events) >= 2 /\ EventList[2].type \in EditTypes)
           => EventList[2].hash = ComputeEventHash(EventList[2], EventList[1].hash)

\* one step of the reconstruction: the content after the event
ApplyEvent(replayContent, event, sessionBase) ==
    CASE event.type \in {EventType.INSERT, EventType.PASTE} ->
            IF event.content # << >> /\ event.content # NullContent
            THEN Substring(replayContent, 0, event.position) \o event.content
                     \o Substring(replayContent, event.position, Len(replayContent))
            ELSE replayContent
      [] event.type = EventType.DELETE ->
            IF event.content # << >> /\ event.content # NullContent
            THEN Substring(replayContent, 0, event.position)
                     \o Substring(replayContent, event.position + Len(event.content),
                                  Len(replayContent))
            ELSE replayContent
      [] event.type = EventType.SESSION_START ->
            IF sessionBase # << >> THEN sessionBase ELSE replayContent
      [] OTHER -> replayContent

\* the loop of seekToEvent over the first n events of a session, from ''
RECURSIVE Reconstruct(_, _, _)
Reconstruct(evs, n, sessionBase) ==
    IF n = 0 THEN << >>
    ELSE ApplyEvent(Reconstruct(evs, n - 1, sessionBase), evs[n], sessionBase)

\* C18: reconstruction fidelity: once all record calls have completed (and the
\* timers armed by a paste have fired), replaying the session's baseContent
\* and recorded events yields exactly the editor's content.
C18_ReplayYieldsEditorContent ==
    (Settled /\ workHasBegun)
        => Reconstruct(EventList, Len(events), sessionBaseContent) = value

\* the replay of a document's sessions (of which the editor writes at most one)
DocumentReplay(sessions) ==
    IF sessions = << >> THEN << >>
    ELSE Reconstruct(sessions[1].events, Len(sessions[1].events), sessions[1].baseContent)

\* C17: every document the app persists satisfies the document invariant: its
\* finalContent equals the content obtained by replaying its sessions'
\* baseContent and events, for every interleaving of typing, autosave ticks and
\* in-flight hash computations.
C17_PersistedContentMatchesReplay ==
    persisted.written => persisted.finalContent = DocumentReplay(persisted.sessions)

\* -------------------------------------------- verifyHashChain on event lists

NoResult == [done |-> FALSE, valid |-> FALSE, brokenAt |-> NullPos, lastHash |-> EmptyHash]

ListOf(w) == IF w = "A" THEN listA ELSE IF w = "B" THEN listB ELSE listA \o listB

LastHashOf(evs) == IF Len(evs) = 0 THEN EmptyHash ELSE evs[Len(evs)].hash

\* an event is added to list A or list B, its hash chained onto the list's last
\* hash, or computed from the empty hash as the first event of a session is
ChainAppend(w, a, chained) ==
    /\ tamperedAt = 0
    /\ Len(ListOf(w)) < MaxChainLen
    /\ LET payload == [type |-> EventType.INSERT, timestamp |-> now,
                       position |-> a.position, content |-> a.content]
           e == [type |-> EventType.INSERT, timestamp |-> now, position |-> a.position,
                 content |-> a.content,
                 hash |-> ComputeEventHash(payload,
                              IF chained THEN LastHashOf(ListOf(w)) ELSE EmptyHash)]
       IN /\ listA' = IF w = "A" THEN Append(listA, e) ELSE listA
          /\ listB' = IF w = "B" THEN Append(listB, e) ELSE listB
    /\ res' = [res EXCEPT ![w] = NoResult, !["AB"] = NoResult]
    /\ UNCHANGED <<recVars, now, callerVars, appVars, tamperedAt, validBefore, fmtVars, saveVars>>

\* the (field, value) changes made to a stored event
Tamperings == {<<"content", <<99>>>>, <<"position", 7>>}

\* one event of list A, already verified, has its content or its position
\* changed, every stored hash left as it is
ChainTamper(k, w) ==
    /\ tamperedAt = 0
    /\ res["A"].done
    /\ k \in DOMAIN listA
    /\ listA[k][w[1]] # w[2]
    /\ listA' = [listA EXCEPT ![k] = [@ EXCEPT ![w[1]] = w[2]]]
    /\ tamperedAt' = k
    /\ validBefore' = res["A"].valid
    /\ res' = [res EXCEPT !["A"] = NoResult, !["AB"] = NoResult]
    /\ UNCHANGED <<recVars, now, callerVars, appVars, listB, fmtVars, saveVars>>

\* verifyHashChain(list, '') is called on A, on B or on A ++ B
ChainVerify(w) ==
    /\ ~res[w].done
    /\ LET r == VerifyHashChain(ListOf(w), EmptyHash)
       IN res' = [res EXCEPT ![w] = [done |-> TRUE, valid |-> r.valid,
                                     brokenAt |-> r.brokenAt, lastHash |-> r.lastHash]]
    /\ UNCHANGED <<recVars, now, callerVars, appVars, listA, listB, tamperedAt, validBefore, fmtVars, saveVars>>

NextChain ==
    \/ \E w \in {"A", "B"}, a \in EditArgs, chained \in BOOLEAN : ChainAppend(w, a, chained)
    \/ \E k \in 1..MaxChainLen, w \in Tamperings : ChainTamper(k, w)
    \/ \E w \in {"A", "B", "AB"} : ChainVerify(w)

SpecChain == Init /\ [][NextChain]_vars

\* C4: tamper detection: when the content or the position of exactly one event,
\* at index k, of a list that verified as a valid chain is changed and the
\* stored hashes are left alone, verifyHashChain returns valid = false with
\* brokenAt = k.
C4_TamperDetectedAtIndex ==
    (tamperedAt > 0 /\ validBefore /\ res["A"].done)
        => (~res["A"].valid /\ res["A"].brokenAt = tamperedAt - 1)

\* C4 witness: the second event of a valid two-event chain was altered and the
\* list verified again
C4_Witness ==
    /\ tamperedAt = 2 /\ validBefore
    /\ res["A"].done /\ res["A"].brokenAt = 1

\* C6: session isolation: for non-empty lists A and B that each verify as a
\* valid chain from "", verifyHashChain(A ++ B, "") returns valid = false with
\* brokenAt = |A|.
C6_ConcatenatedSessionsFail ==
    (/\ res["A"].done /\ res["B"].done /\ res["AB"].done
     /\ res["A"].valid /\ res["B"].valid
     /\ Len(listA) > 0 /\ Len(listB) > 0)
        => (~res["AB"].valid /\ res["AB"].brokenAt = Len(listA))

\* C6 witness: two valid two-event chains have been verified alone and
\* concatenated
C6_Witness ==
    /\ res["A"].done /\ res["B"].done /\ res["AB"].done
    /\ res["A"].valid /\ res["B"].valid
    /\ Len(listA) = 2 /\ Len(listB) = 2
    /\ res["AB"].brokenAt = 2

\* what the claim says verifyHashChain(evs, start) returns, given r
VerifyResultAsSpecified(evs, start, r) ==
    LET bad == {i \in DOMAIN evs : Mismatch(evs, start, i)}
    IN /\ r.valid <=> bad = {}
       /\ r.valid => r.brokenAt = NullPos
       /\ ~r.valid => (r.brokenAt + 1 \in bad /\ \A j \in bad : r.brokenAt + 1 <= j)
       /\ Len(evs) = 0 => (r.valid /\ r.lastHash = start)

\* C13: verifyHashChain(events, start) returns valid = true with brokenAt = null
\* exactly when every stored hash equals the hash recomputed from the event and
\* the stored hash of its predecessor (start for index 0), otherwise valid =
\* false with brokenAt the smallest mismatching index; for an empty list it
\* returns valid = true and lastHash = start; it never modifies the events.
C13_VerifyReportsFirstMismatch ==
    [][\A w \in {"A", "B", "AB"} : ChainVerify(w) =>
          /\ UNCHANGED <<listA, listB>>
          /\ res'[w].done
          /\ VerifyResultAsSpecified(ListOf(w), EmptyHash, res'[w])
          /\ VerifyResultAsSpecified(ListOf(w), LastHashOf(listA),
                                     VerifyHashChain(ListOf(w), LastHashOf(listA)))]_vars

\* C13 witness: a list with two mismatching events has been verified, and the
\* first of them, not at index 0, reported
C13_Witness ==
    /\ res["AB"].done /\ ~res["AB"].valid /\ res["AB"].brokenAt = 1
    /\ Cardinality({i \in DOMAIN ListOf("AB") : Mismatch(ListOf("AB"), EmptyHash, i)}) >= 2

\* ---------------------------------------------- format: document operations

SessionIds == {<<115, 49>>, <<115, 50>>}

\* an event hashed onto previousHash, as the recorder builds it
MkEvent(type, timestamp, position, content, previousHash) ==
    [type |-> type, timestamp |-> timestamp, position |-> position, content |-> content,
     hash |-> ComputeEventHash([type |-> type, timestamp |-> timestamp,
                                position |-> position, content |-> content], previousHash)]

PoolStart == MkEvent(EventType.SESSION_START, 0, NullPos, NullContent, EmptyHash)

\* an insert of the character '"'
PoolInsert == MkEvent(EventType.INSERT, 0, 0, <<34>>, PoolStart.hash)

\* the event lists of the sessions given to addSession: no events, valid
\* chains, a chain whose second event was altered, and one whose first was
SessionEventLists ==
    { << >>,
      <<PoolStart>>,
      <<PoolStart, PoolInsert>>,
      <<PoolStart, [PoolInsert EXCEPT !.content = <<97>>]>>,
      <<[PoolStart EXCEPT !.timestamp = 1], PoolInsert>> }

\* addSession(document, sessionId, startTime, endTime, events, baseContent)
AddSession(sessionId, startTime, endTime, evs, baseContent) ==
    LET session == [id |-> sessionId, startTime |-> ToISOString(startTime),
                    endTime |-> ToISOString(endTime), baseContent |-> baseContent,
                    events |-> evs]
    IN /\ Len(doc.sessions) < MaxSessions
       /\ doc' = [doc EXCEPT !.sessions = Append(@, session),
                             !.metadata.lastModifiedAt = ToISOString(now)]
       /\ vres' = NoValidation /\ stats' = NoStatistics
       /\ pres' = NoParse
       /\ UNCHANGED <<finalizing, recVars, now, callerVars, appVars, chainVars, saveVars, hashSetByHand>>

\* a finalizeDocument that leaves document.finalContent to its caller
FinalizeDocumentHashOnly(finalContent) ==
    /\ finalizing = << >>
    /\ finalizing' = <<finalContent>>
    /\ UNCHANGED <<doc, vres, pres, stats, recVars, now, callerVars, appVars, chainVars, saveVars, hashSetByHand>>

\* finalizeDocument(document, finalContent) up to `await sha256(finalContent)`
FinalizeDocument(finalContent) ==
    /\ finalizing = << >>
    /\ doc' = [doc EXCEPT !.finalContent = finalContent]
    /\ finalizing' = <<finalContent>>
    /\ vres' = NoValidation /\ stats' = NoStatistics
    /\ pres' = NoParse
    /\ UNCHANGED <<recVars, now, callerVars, appVars, chainVars, saveVars, hashSetByHand>>

\* a finalizeDocument that digests the content with a line feed appended
FinalizeResumeWithNewline ==
    /\ finalizing # << >>
    /\ doc' = [doc EXCEPT !.contentHash = Sha256(finalizing[1] \o <<10>>),
                          !.metadata.lastModifiedAt = ToISOString(now)]
    /\ finalizing' = Tail(finalizing)
    /\ vres' = NoValidation /\ stats' = NoStatistics
    /\ pres' = NoParse
    /\ hashSetByHand' = FALSE
    /\ UNCHANGED <<recVars, now, callerVars, appVars, chainVars, saveVars>>

\* finalizeDocument after its await: the digest of the argument is stored
FinalizeResume ==
    /\ finalizing # << >>
    /\ doc' = [doc EXCEPT !.contentHash = Sha256(finalizing[1]),
                          !.metadata.lastModifiedAt = ToISOString(now)]
    /\ finalizing' = Tail(finalizing)
    /\ vres' = NoValidation /\ stats' = NoStatistics
    /\ pres' = NoParse
    /\ hashSetByHand' = FALSE
    /\ UNCHANGED <<recVars, now, callerVars, appVars, chainVars, saveVars>>

\* the result verifyProvenanceFile pushes for a session
SessionResult(session, startingHash) ==
    LET r == VerifyHashChain(session.events, startingHash)
    IN [sessionId |-> session.id, valid |-> r.valid, brokenAt |-> r.brokenAt,
        lastHash |-> r.lastHash]

\* a verifyProvenanceFile that chains each session onto the one before
VerifyProvenanceFileChained(provenanceData) ==
    LET ss == provenanceData.sessions
        results == [i \in DOMAIN ss |->
                       SessionResult(ss[i],
                           IF i > 1 /\ Len(ss[i - 1].events) > 0
                           THEN ss[i - 1].events[Len(ss[i - 1].events)].hash
                           ELSE EmptyHash)]
    IN [valid |-> \A i \in DOMAIN results : results[i].valid, results |-> results]

VerifyProvenanceFile(provenanceData) ==
    LET results == [i \in DOMAIN provenanceData.sessions |->
                       SessionResult(provenanceData.sessions[i], EmptyHash)]
    IN [valid |-> \A i \in DOMAIN results : results[i].valid, results |-> results]

\* an entry of validate's error list: the message, and for a chain error the
\* session id and the break index the message names
ValidationError(kind, sessionId, brokenAt) ==
    [kind |-> kind, sessionId |-> sessionId, brokenAt |-> brokenAt]

\* the errors validate collects, in the order it pushes them
ValidateErrors(document) ==
    LET hashVerification == VerifyProvenanceFile(document)
        perSession == [i \in DOMAIN hashVerification.results |->
                          ValidationError(IF hashVerification.results[i].valid
                                          THEN "none" ELSE "chain",
                                          hashVerification.results[i].sessionId,
                                          hashVerification.results[i].brokenAt)]
    IN (IF document.version = << >>
        THEN <<ValidationError("Missing version field", << >>, NullPos)>> ELSE << >>)
       \o (IF document.metadata.createdAt = << >>
           THEN <<ValidationError("Missing createdAt", << >>, NullPos)>> ELSE << >>)
       \o (IF document.metadata.lastModifiedAt = << >>
           THEN <<ValidationError("Missing lastModifiedAt", << >>, NullPos)>> ELSE << >>)
       \o SelectSeq(perSession, LAMBDA e : e.kind = "chain")
       \o (IF /\ document.finalContent # << >>
              /\ document.contentHash # EmptyHash
              /\ Sha256(document.finalContent) # document.contentHash
           THEN <<ValidationError("Final content hash mismatch", << >>, NullPos)>>
           ELSE << >>)

\* a validate that writes the recomputed digest back into the document
ValidateRepairing ==
    /\ ~vres.done
    /\ vres' = [done |-> TRUE, valid |-> ValidateErrors(doc) = << >>,
                errors |-> ValidateErrors(doc)]
    /\ doc' = [doc EXCEPT !.contentHash = Sha256(doc.finalContent)]
    /\ pres' = NoParse
    /\ stats' = NoStatistics
    /\ UNCHANGED <<finalizing, recVars, now, callerVars, appVars, chainVars, saveVars, hashSetByHand>>

\* validate(document)
Validate ==
    /\ ~vres.done
    /\ vres' = [done |-> TRUE, valid |-> ValidateErrors(doc) = << >>,
                errors |-> ValidateErrors(doc)]
    /\ pres' = NoParse
    /\ stats' = NoStatistics
    /\ UNCHANGED <<doc, finalizing, recVars, now, callerVars, appVars, chainVars, saveVars, hashSetByHand>>

\* a new document replaces the current one
CreateDocument ==
    /\ finalizing = << >>
    /\ doc' = CreateProvenanceDocument(Untitled)
    /\ doc' # doc
    /\ vres' = NoValidation /\ stats' = NoStatistics
    /\ pres' = NoParse
    /\ hashSetByHand' = FALSE
    /\ UNCHANGED <<finalizing, recVars, now, callerVars, appVars, chainVars, saveVars>>

\* ------------------------------------------------ format: JSON text

\* JavaScript values: null, undefined, strings (of code units), strings of a
\* fixed alphabet with nothing to escape (digests, type names), numbers, arrays
\* and objects (properties in insertion order)
JNull == <<"null">>
JUndefined == <<"undefined">>
JStr(s) == <<"str", s>>
JAtom(x) == <<"atom", x>>
JNum(n) == <<"num", n>>
JArr(items) == <<"arr", items>>
JObj(props) == <<"obj", props>>

\* object[key]
Get(object, key) ==
    IF \E i \in DOMAIN object[2] : object[2][i][1] = key
    THEN object[2][CHOOSE i \in DOMAIN object[2] : object[2][i][1] = key][2]
    ELSE JUndefined

\* !val
Falsy(val) ==
    \/ val[1] \in {"null", "undefined"}
    \/ val[1] = "str" /\ val[2] = << >>
    \/ val[1] = "num" /\ val[2] = 0

\* the characters of a JSON string literal between its quotes
RECURSIVE Escape(_)
Escape(s) ==
    IF s = << >> THEN << >>
    ELSE (IF Head(s) \in {34, 92} THEN <<92, Head(s)>>
          ELSE IF Head(s) = 10 THEN <<92, 110>>
          ELSE <<Head(s)>>) \o Escape(Tail(s))

RECURSIVE Unescape(_)
Unescape(s) ==
    IF s = << >> THEN << >>
    ELSE IF Head(s) = 92
         THEN (IF s[2] = 110 THEN <<10>> ELSE <<s[2]>>) \o Unescape(SubSeq(s, 3, Len(s)))
         ELSE <<Head(s)>> \o Unescape(Tail(s))

\* the digits of a JSON number
NumberText(n) == IF n < 0 THEN <<45>> \o Decimal(0 - n) ELSE Decimal(n)

RECURSIVE ParseDigits(_)
ParseDigits(t) ==
    IF t = << >> THEN 0 ELSE 10 * ParseDigits(SubSeq(t, 1, Len(t) - 1)) + (t[Len(t)] - 48)

ParseNumber(t) == IF Head(t) = 45 THEN 0 - ParseDigits(Tail(t)) ELSE ParseDigits(t)

\* JSON.stringify(val): the text, token by token; an undefined property is
\* left out and an undefined array element written as null
RECURSIVE Stringify(_)
Stringify(val) ==
    CASE val[1] = "null" -> <<"null">>
      [] val[1] = "undefined" -> <<"null">>
      [] val[1] = "str" -> <<"string", Escape(val[2])>>
      [] val[1] = "atom" -> <<"word", val[2]>>
      [] val[1] = "num" -> <<"number", NumberText(val[2])>>
      [] val[1] = "arr" -> <<"array", [i \in DOMAIN val[2] |-> Stringify(val[2][i])]>>
      [] val[1] = "obj" ->
            LET kept == SelectSeq(val[2], LAMBDA p : p[2][1] # "undefined")
            IN <<"object", [i \in DOMAIN kept |-> <<kept[i][1], Stringify(kept[i][2])>>]>>

\* JSON.parse(text)
RECURSIVE JsonParse(_)
JsonParse(text) ==
    CASE text[1] = "null" -> JNull
      [] text[1] = "string" -> JStr(Unescape(text[2]))
      [] text[1] = "word" -> JAtom(text[2])
      [] text[1] = "number" -> JNum(ParseNumber(text[2]))
      [] text[1] = "array" -> JArr([i \in DOMAIN text[2] |-> JsonParse(text[2][i])])
      [] text[1] = "object" ->
            JObj([i \in DOMAIN text[2] |-> <<text[2][i][1], JsonParse(text[2][i][2])>>])

\* an event whose position is left undefined instead of null
PositionValueUndefined(position) == IF position = NullPos THEN JUndefined ELSE JNum(position)

\* the position, content and hash of an event, as JavaScript values
PositionValue(position) == IF position = NullPos THEN JNull ELSE JNum(position)

ContentValue(content) == IF content = NullContent THEN JNull ELSE JStr(content)

HashValue(hash) == IF hash = EmptyHash THEN JStr(<< >>) ELSE JAtom(hash)

EventObject(e) ==
    JObj(<< <<"type", JAtom(e.type)>>, <<"timestamp", JNum(e.timestamp)>>,
            <<"position", PositionValue(e.position)>>, <<"content", ContentValue(e.content)>>,
            <<"hash", HashValue(e.hash)>> >>)

SessionObject(session) ==
    JObj(<< <<"id", JStr(session.id)>>, <<"startTime", JStr(session.startTime)>>,
            <<"endTime", JStr(session.endTime)>>, <<"baseContent", JStr(session.baseContent)>>,
            <<"events", JArr([i \in DOMAIN session.events |-> EventObject(session.events[i])])>> >>)

\* the document object
DocObject(d) ==
    JObj(<< <<"version", JStr(d.version)>>,
            <<"metadata", JObj(<< <<"title", JStr(d.metadata.title)>>,
                                  <<"createdAt", JStr(d.metadata.createdAt)>>,
                                  <<"lastModifiedAt", JStr(d.metadata.lastModifiedAt)>>,
                                  <<"editorVersion", JStr(d.metadata.editorVersion)>> >>)>>,
            <<"sessions", JArr([i \in DOMAIN d.sessions |-> SessionObject(d.sessions[i])])>>,
            <<"finalContent", JStr(d.finalContent)>>,
            <<"contentHash", HashValue(d.contentHash)>> >>)

\* serialize(document)
Serialize(d) == Stringify(DocObject(d))

RequiredFields == {"version", "metadata", "sessions"}

\* a parse that does not look at sessions
ParseUnchecked(jsonString) ==
    LET document == JsonParse(jsonString)
    IN IF document[1] # "obj"
       THEN [threw |-> TRUE, value |-> JNull]
       ELSE IF Falsy(Get(document, "version")) \/ Falsy(Get(document, "metadata"))
            THEN [threw |-> TRUE, value |-> JNull]
            ELSE [threw |-> FALSE, value |-> document]

\* parse(jsonString): what it returns, or that it threw
Parse(jsonString) ==
    LET document == JsonParse(jsonString)
    IN IF document[1] # "obj"
       THEN [threw |-> TRUE, value |-> JNull]
       ELSE IF \/ Falsy(Get(document, "version"))
               \/ Falsy(Get(document, "metadata"))
               \/ Falsy(Get(document, "sessions"))
            THEN [threw |-> TRUE, value |-> JNull]
            ELSE [threw |-> FALSE, value |-> document]

\* an object without the property key
Without(object, key) == JObj(SelectSeq(object[2], LAMBDA p : p[1] # key))

\* an object with the property key set to val
With(object, key, val) ==
    JObj([i \in DOMAIN object[2] |->
             IF object[2][i][1] = key THEN <<key, val>> ELSE object[2][i]])

\* the objects whose texts are given to parse: the document, the document
\* without one of its required fields, and the document with one of them
\* empty or null
ParseInputs(d) ==
    {DocObject(d)}
    \cup {Without(DocObject(d), k) : k \in RequiredFields}
    \cup {With(DocObject(d), "version", JStr(<< >>)),
          With(DocObject(d), "metadata", JNull),
          With(DocObject(d), "sessions", JNull)}

\* parse(text)
ParseText(text) ==
    /\ ~pres.done
    /\ pres' = [done |-> TRUE, threw |-> Parse(text).threw, text |-> text,
                value |-> Parse(text).value]
    /\ vres' = NoValidation /\ stats' = NoStatistics
    /\ UNCHANGED <<doc, finalizing, recVars, now, callerVars, appVars, chainVars, saveVars, hashSetByHand>>

\* the texts given to finalizeDocument
FinalContents == {<< >>, <<97>>}

\* the strings a holder of the document writes into its contentHash field
ReplacementHashes == {EmptyHash, Sha256(<<98>>)}

\* document.contentHash = h, written by whoever holds the document
SetContentHash(h) ==
    /\ finalizing = << >>
    /\ h # doc.contentHash
    /\ doc' = [doc EXCEPT !.contentHash = h]
    /\ hashSetByHand' = TRUE
    /\ vres' = NoValidation /\ stats' = NoStatistics
    /\ pres' = NoParse
    /\ UNCHANGED <<finalizing, recVars, now, callerVars, appVars, chainVars, saveVars>>

NextFormat ==
    \/ CreateDocument
    \/ \E h \in ReplacementHashes : SetContentHash(h)
    \/ \E id \in SessionIds, et \in 0..MaxTime, evs \in SessionEventLists :
           AddSession(id, 0, et, evs, << >>)
    \/ \E c \in FinalContents : FinalizeDocument(c)
    \/ FinalizeResume
    \/ Validate
    \/ \E o \in ParseInputs(doc) : ParseText(Stringify(o))

SpecFormat == Init /\ [][NextFormat]_vars

\* the indices, in order, of the sessions whose chain is broken
BrokenSessions(document) ==
    SelectSeq([i \in DOMAIN document.sessions |-> i],
              LAMBDA i : \E k \in DOMAIN document.sessions[i].events :
                            Mismatch(document.sessions[i].events, EmptyHash, k))

\* the first index (0-based) at which a session's chain, verified alone from
\* "", is broken
FirstBreak(session) ==
    (CHOOSE k \in DOMAIN session.events :
        /\ Mismatch(session.events, EmptyHash, k)
        /\ \A j \in 1..(k - 1) : ~Mismatch(session.events, EmptyHash, j)) - 1

\* C14: validate / verifyProvenanceFile verify each session alone from "": the
\* result is valid only if every session's chain is valid, and the error list
\* holds exactly one chain error per broken session, in session order, naming
\* that session's id and its first break index; an intact session gets none.
C14_OneChainErrorPerBrokenSession ==
    vres.done =>
        LET chainErrors == SelectSeq(vres.errors, LAMBDA e : e.kind = "chain")
            broken == BrokenSessions(doc)
        IN /\ vres.valid => broken = << >>
           /\ VerifyProvenanceFile(doc).valid <=> broken = << >>
           /\ Len(chainErrors) = Len(broken)
           /\ \A k \in DOMAIN chainErrors :
                  /\ chainErrors[k].sessionId = doc.sessions[broken[k]].id
                  /\ chainErrors[k].brokenAt = FirstBreak(doc.sessions[broken[k]])

\* C14 witness: a document whose first session is broken at its second event
\* and whose second session is intact and not empty has been validated
C14_Witness ==
    /\ vres.done /\ ~vres.valid
    /\ Len(doc.sessions) = 2
    /\ BrokenSessions(doc) = <<1>>
    /\ FirstBreak(doc.sessions[1]) = 1
    /\ Len(doc.sessions[2].events) = 2
    /\ Len(vres.errors) = 1

\* C15: addSession is an upsert by session id: no two entries of
\* document.sessions have the same id.
C15_AddSessionUpsertsById ==
    \A i, j \in DOMAIN doc.sessions :
        doc.sessions[i].id = doc.sessions[j].id => i = j

\* C16: when a finalizeDocument(document, c) call completes, document.finalContent
\* = c and document.contentHash = digest(c) = digest(document.finalContent), and
\* neither step of the call changes document.sessions.
C16_FinalizeSetsContentAndHash ==
    [][/\ FinalizeResume =>
            /\ doc'.finalContent = finalizing[1]
            /\ doc'.contentHash = Sha256(finalizing[1])
            /\ doc'.contentHash = Sha256(doc'.finalContent)
            /\ doc'.sessions = doc.sessions
       /\ (\E c \in FinalContents : FinalizeDocument(c)) => doc'.sessions = doc.sessions]_vars

\* C16 witness: a document with a session, finalized with a non-empty text
\* after having been finalized with the empty one
C16_Witness ==
    /\ finalizing = << >>
    /\ Len(doc.sessions) >= 1
    /\ doc.finalContent = <<97>>
    /\ doc.contentHash = Sha256(<<97>>)

\* whether a required top-level field is absent from the object a text denotes
FieldAbsent(text) ==
    \/ JsonParse(text)[1] # "obj"
    \/ \E k \in RequiredFields : Get(JsonParse(text), k) = JUndefined

\* whether a required top-level field is absent from it, or present and falsy
FieldMissing(text) ==
    \/ JsonParse(text)[1] # "obj"
    \/ \E k \in RequiredFields : Falsy(Get(JsonParse(text), k))

\* C19 (as stated): parse fails exactly when one of version, metadata, sessions
\* is absent from the parsed object, and otherwise returns the parsed object.
C19_ParseFailsIffFieldAbsent ==
    pres.done =>
        /\ pres.threw <=> FieldAbsent(pres.text)
        /\ ~pres.threw => pres.value = JsonParse(pres.text)

\* C19 (amended): parse fails exactly when one of version, metadata, sessions
\* is absent from the parsed object or present with a falsy value ("", null,
\* 0); when all three are present and truthy (an empty sessions list is) it
\* returns the parsed object as it is.
C19_ParseFailsIffFieldMissing ==
    pres.done =>
        /\ pres.threw <=> FieldMissing(pres.text)
        /\ ~pres.threw => pres.value = JsonParse(pres.text)

\* C19 witness: a text without sessions was refused
C19_Witness ==
    /\ pres.done /\ pres.threw
    /\ Get(JsonParse(pres.text), "sessions") = JUndefined
    /\ ~Falsy(Get(JsonParse(pres.text), "version"))
    /\ ~Falsy(Get(JsonParse(pres.text), "metadata"))

\* C20: for every document built by createProvenanceDocument, addSession and
\* finalizeDocument, parse(serialize(d)) succeeds and is deeply equal to d,
\* sessions and events in the same order.
C20_ParseSerializeRoundTrip ==
    (pres.done /\ pres.text = Serialize(doc)) =>
        (~pres.threw /\ pres.value = DocObject(doc))

\* C20 witness: a finalized document of two sessions, one with a session
\* marker (null position and content) and an insert of a quote character, has
\* been serialized and parsed
C20_Witness ==
    /\ pres.done /\ pres.text = Serialize(doc) /\ ~pres.threw
    /\ Len(doc.sessions) = 2
    /\ doc.sessions[1].events = <<PoolStart, PoolInsert>>
    /\ doc.finalContent = <<97>> /\ doc.contentHash = Sha256(<<97>>)


\* the document with its contentHash put right: what it was before the write
WithRightHash(document) ==
    [document EXCEPT !.contentHash = Sha256(document.finalContent)]

\* C21: when contentHash of an otherwise valid document is set to a string
\* other than the digest of finalContent, validate answers valid = false with
\* the final-content-hash-mismatch error as its only error, whatever
\* finalContent and the replacement are (the empty string included)
C21_HashMismatchReported ==
    (/\ vres.done
     /\ hashSetByHand
     /\ doc.contentHash # Sha256(doc.finalContent)
     /\ ValidateErrors(WithRightHash(doc)) = << >>)
        => /\ ~vres.valid
           /\ vres.errors = <<ValidationError("Final content hash mismatch", << >>, NullPos)>>


\* the document is what createProvenanceDocument("Untitled") made, finalized
\* with "" and touched by nothing else
EmptyFinalized ==
    /\ finalizing = << >>
    /\ ~hashSetByHand
    /\ doc.contentHash # EmptyHash
    /\ doc = [CreateProvenanceDocument(Untitled) EXCEPT
                  !.contentHash = doc.contentHash,
                  !.metadata.createdAt = doc.metadata.createdAt,
                  !.metadata.lastModifiedAt = doc.metadata.lastModifiedAt]

\* C22: createProvenanceDocument("Untitled") followed by finalizeDocument(doc, "")
\* leaves contentHash = digest(""), and validate on that document answers
\* valid = true with no errors
C22_EmptyDocumentValid ==
    EmptyFinalized
        => /\ doc.contentHash = Sha256(<< >>)
           /\ vres.done => (vres.valid /\ vres.errors = << >>)

C22_Witness ==
    EmptyFinalized /\ vres.done /\ vres.valid


\* C23: validate changes nothing in the document it is given (metadata,
\* sessions, events and their hashes, finalContent, contentHash), whether it
\* answers valid or reports errors: a step that produces a validation result
\* leaves the document as it was
C23_ValidateNonMutating ==
    [][(~vres.done /\ vres'.done) => doc' = doc]_vars

\* validate has reported a broken chain and a mismatching content hash, and
\* the document still has both
C23_Witness ==
    /\ vres.done
    /\ ~vres.valid
    /\ Len(vres.errors) >= 2
    /\ BrokenSessions(doc) # << >>
    /\ doc.contentHash # Sha256(doc.finalContent)


\* ---------------------------------------------------- format: statistics

\* new Date(iso).getTime(): the instant an ISO string names
DateGetTime(iso) == ParseDigits(Tail(iso))

RECURSIVE Gcd(_, _)
Gcd(a, b) == IF b = 0 THEN a ELSE Gcd(b, a % b)

\* a / b for counts a and b > 0: the quotient, as a fraction in lowest terms
Quotient(a, b) == <<a \div Gcd(a, b), b \div Gcd(a, b)>>

\* formatDuration(ms)
FormatDuration(ms) ==
    LET seconds == ms \div 1000
        minutes == seconds \div 60
        hours == minutes \div 60
    IN IF hours > 0
       THEN NumberText(hours) \o <<104, 32>> \o NumberText(minutes % 60) \o <<109>>
       ELSE IF minutes > 0
            THEN NumberText(minutes) \o <<109, 32>> \o NumberText(seconds % 60) \o <<115>>
            ELSE NumberText(seconds) \o <<115>>

\* (event.content || '').length
ContentLength(event) ==
    IF event.content = NullContent THEN 0 ELSE Len(event.content)

\* the counters getStatistics keeps, before the first event
ZeroCounters ==
    [totalEvents |-> 0, insertEvents |-> 0, deleteEvents |-> 0, pasteEvents |-> 0,
     totalCharsTyped |-> 0, totalCharsDeleted |-> 0, totalCharsPasted |-> 0]

\* a loop body that counts a paste as typed text
CountEventPasteAsInsert(acc, event) ==
    CASE event.type \in {EventType.INSERT, EventType.PASTE} ->
             [acc EXCEPT !.totalEvents = @ + 1, !.insertEvents = @ + 1,
                         !.totalCharsTyped = @ + ContentLength(event)]
      [] event.type = EventType.DELETE ->
             [acc EXCEPT !.totalEvents = @ + 1, !.deleteEvents = @ + 1,
                         !.totalCharsDeleted = @ + ContentLength(event)]
      [] OTHER -> [acc EXCEPT !.totalEvents = @ + 1]

\* the body of getStatistics's inner loop: totalEvents++ and the switch
CountEvent(acc, event) ==
    CASE event.type = EventType.INSERT ->
             [acc EXCEPT !.totalEvents = @ + 1, !.insertEvents = @ + 1,
                         !.totalCharsTyped = @ + ContentLength(event)]
      [] event.type = EventType.DELETE ->
             [acc EXCEPT !.totalEvents = @ + 1, !.deleteEvents = @ + 1,
                         !.totalCharsDeleted = @ + ContentLength(event)]
      [] event.type = EventType.PASTE ->
             [acc EXCEPT !.totalEvents = @ + 1, !.pasteEvents = @ + 1,
                         !.totalCharsPasted = @ + ContentLength(event)]
      [] OTHER -> [acc EXCEPT !.totalEvents = @ + 1]

\* the inner loop over a session's events
RECURSIVE CountEvents(_, _)
CountEvents(acc, evs) ==
    IF evs = << >> THEN acc ELSE CountEvents(CountEvent(acc, Head(evs)), Tail(evs))

\* the outer loop over the sessions
RECURSIVE CountSessions(_, _)
CountSessions(acc, sessions) ==
    IF sessions = << >> THEN acc
    ELSE CountSessions(CountEvents(acc, Head(sessions).events), Tail(sessions))

\* the second loop: the time spans of the sessions that have both times
RECURSIVE WritingTime(_)
WritingTime(sessions) ==
    IF sessions = << >> THEN 0
    ELSE (IF Head(sessions).startTime # << >> /\ Head(sessions).endTime # << >>
          THEN DateGetTime(Head(sessions).endTime) - DateGetTime(Head(sessions).startTime)
          ELSE 0)
         + WritingTime(Tail(sessions))

\* getStatistics(document)
GetStatistics(document) ==
    LET c == CountSessions(ZeroCounters, document.sessions)
        totalWritingTimeMs == WritingTime(document.sessions)
    IN [sessionCount |-> Len(document.sessions),
        totalEvents |-> c.totalEvents,
        insertEvents |-> c.insertEvents,
        deleteEvents |-> c.deleteEvents,
        pasteEvents |-> c.pasteEvents,
        totalCharsTyped |-> c.totalCharsTyped,
        totalCharsDeleted |-> c.totalCharsDeleted,
        totalCharsPasted |-> c.totalCharsPasted,
        totalWritingTimeMs |-> totalWritingTimeMs,
        totalWritingTimeFormatted |-> FormatDuration(totalWritingTimeMs),
        pasteRatio |-> IF c.totalEvents > 0 THEN Quotient(c.pasteEvents, c.totalEvents)
                       ELSE <<0, 1>>,
        finalContentLength |-> Len(document.finalContent)]

\* a caller asks for the statistics of the current document
Statistics ==
    /\ ~stats.done
    /\ stats' = [done |-> TRUE, result |-> GetStatistics(doc)]
    /\ UNCHANGED <<doc, finalizing, vres, pres, hashSetByHand, recVars, now, callerVars,
                   appVars, chainVars, saveVars>>

\* the session the recorder makes of: insert "H" at 0, insert "i" at 1,
\* delete "i" at 1, paste "ello" at 1
RecordedH == MkEvent(EventType.INSERT, 0, 0, <<72>>, PoolStart.hash)
RecordedI == MkEvent(EventType.INSERT, 0, 1, <<105>>, RecordedH.hash)
RecordedDeleteI == MkEvent(EventType.DELETE, 0, 1, <<105>>, RecordedI.hash)
RecordedPaste == MkEvent(EventType.PASTE, 1, 1, <<101, 108, 108, 111>>, RecordedDeleteI.hash)
RecordedSession == <<PoolStart, RecordedH, RecordedI, RecordedDeleteI, RecordedPaste>>

\* the event lists of the sessions whose statistics are taken
StatsEventLists ==
    { << >>,
      <<PoolStart>>,
      <<PoolStart, PoolInsert>>,
      RecordedSession,
      <<MkEvent(EventType.PASTE, 0, 0, <<97, 98>>, EmptyHash),
        MkEvent(EventType.INSERT, 0, 0, << >>, EmptyHash)>> }

NextStats ==
    \/ CreateDocument
    \/ \E st \in 0..MaxTime, et \in 0..MaxTime, evs \in StatsEventLists :
           AddSession(<<115, 49>>, st, et, evs, << >>)
    \/ Statistics

SpecStats == Init /\ [][NextStats]_vars

\* every event of the document, session after session
RECURSIVE AllEvents(_)
AllEvents(sessions) ==
    IF sessions = << >> THEN << >> ELSE Head(sessions).events \o AllEvents(Tail(sessions))

\* the events of one type
OfType(evs, type) == SelectSeq(evs, LAMBDA e : e.type = type)

RECURSIVE SumLengths(_)
SumLengths(evs) ==
    IF evs = << >> THEN 0 ELSE Len(Head(evs).content) + SumLengths(Tail(evs))

\* the instant whose ISO string is iso
InstantOf(iso) == CHOOSE t \in 0..(MaxTime + 1) : ToISOString(t) = iso

RECURSIVE SumSpans(_)
SumSpans(sessions) ==
    IF sessions = << >> THEN 0
    ELSE (InstantOf(Head(sessions).endTime) - InstantOf(Head(sessions).startTime))
         + SumSpans(Tail(sessions))

\* C25: getStatistics returns the number of insert, delete and paste events
\* over all sessions, the summed content lengths of the events of each type,
\* the sum of endTime - startTime over the sessions, and pasteRatio equal to
\* pasteEvents / totalEvents, 0 when totalEvents is 0
C25_StatisticsCountsAndSums ==
    stats.done =>
        LET r == stats.result
            evs == AllEvents(doc.sessions)
        IN /\ r.insertEvents = Len(OfType(evs, EventType.INSERT))
           /\ r.deleteEvents = Len(OfType(evs, EventType.DELETE))
           /\ r.pasteEvents = Len(OfType(evs, EventType.PASTE))
           /\ r.totalCharsTyped = SumLengths(OfType(evs, EventType.INSERT))
           /\ r.totalCharsDeleted = SumLengths(OfType(evs, EventType.DELETE))
           /\ r.totalCharsPasted = SumLengths(OfType(evs, EventType.PASTE))
           /\ r.totalWritingTimeMs = SumSpans(doc.sessions)
           /\ r.totalEvents = 0 => r.pasteRatio = <<0, 1>>
           /\ r.totalEvents > 0 =>
                  /\ r.pasteRatio[2] > 0
                  /\ r.pasteRatio[1] * r.totalEvents = r.pasteEvents * r.pasteRatio[2]

\* statistics taken of two sessions with pastes, a delete and time spent
C25_Witness ==
    /\ stats.done
    /\ Len(doc.sessions) = 2
    /\ stats.result.pasteEvents = 2
    /\ stats.result.deleteEvents = 1
    /\ stats.result.totalCharsPasted = 6
    /\ stats.result.totalWritingTimeMs = 1

\* C26: totalEvents counts edit events only: it is insertEvents + deleteEvents
\* + pasteEvents, the session_start and session_end markers left out (4 for
\* the session session_start, insert "H", insert "i", delete "i", paste "ello")
C26_TotalEventsCountsEdits ==
    stats.done =>
        /\ stats.result.totalEvents
               = stats.result.insertEvents + stats.result.deleteEvents
                 + stats.result.pasteEvents
        /\ (Len(doc.sessions) = 1 /\ doc.sessions[1].events = RecordedSession)
               => stats.result.totalEvents = 4


\* --------------------------------------------------------------- autosave

\* the state of autosave.js as one record
Auto ==
    [autosave EXCEPT !.flushed = NoFlush, !.forced = NoForce]
        @@ [pendingContent |-> pendingContent, lastSavedContent |-> lastSavedContent]

\* the step ends with autosave.js in state st
Commit(st) ==
    /\ pendingContent' = st.pendingContent
    /\ lastSavedContent' = st.lastSavedContent
    /\ autosave' = [f \in DOMAIN autosave |-> st[f]]
    /\ UNCHANGED <<recVars, now, callerVars, appVars, chainVars, fmtVars,
                   currentFileHandle, pendingAutoCreate, persisted, desk, validated, viewer>>

\* the contents the editor hands to scheduleAutosave and forceSave
AutosaveContents == {<< >>, <<97>>, <<97, 98>>}

\* saves started, and saves the waiting flushAndWait calls may yet start
Reserved(st) ==
    (st.nextId - 1) + Len(SelectSeq(st.flushers, LAMBDA f : f.phase = 1))

MarkDirty(st) == [st EXCEPT !.isDirtyFlag = TRUE]

MarkClean(st) == [st EXCEPT !.isDirtyFlag = FALSE]

StartAutosaveInterval(st) == [st EXCEPT !.intervalTimer = TRUE]

StopAutosaveInterval(st) == [st EXCEPT !.intervalTimer = FALSE]

\* scheduleAutosave(currentContent, hasFileHandle), the module's own state
Schedule(st, currentContent, hasFileHandle) ==
    IF ~hasFileHandle THEN st
    ELSE IF currentContent = st.lastSavedContent THEN st
    ELSE StartAutosaveInterval(MarkDirty([st EXCEPT !.pendingContent = currentContent]))

\* a call with a file handle is the latest call for the saves in flight and
\* disturbs the flushAndWait calls that have not resolved
Noted(st, currentContent, hasFileHandle) ==
    IF ~hasFileHandle THEN st
    ELSE [st EXCEPT !.lastScheduled = currentContent,
                    !.inFlight = {[r EXCEPT !.later = currentContent] : r \in @},
                    !.flushers = [i \in DOMAIN @ |-> [@[i] EXCEPT !.undisturbed = FALSE]]]

ScheduleAutosave(currentContent, hasFileHandle) ==
    Commit(Noted(Schedule(Auto, currentContent, hasFileHandle),
                 currentContent, hasFileHandle))

\* a performAutosave that does not compare the content with the last saved one
PerformAutosaveAlways(st, content) ==
    IF st.isAutoSaving THEN [st |-> st, outcome |-> "refused"]
    ELSE [st |-> [st EXCEPT !.isAutoSaving = TRUE,
                            !.savePromise = st.nextId,
                            !.inFlight = @ \cup {[id |-> st.nextId, content |-> content,
                                                  later |-> NullContent]},
                            !.nextId = @ + 1],
          outcome |-> "started"]

\* performAutosave(content) up to its await: refused (returns false), nothing
\* to save (returns true), or the save callback is invoked
PerformAutosave(st, content) ==
    IF st.isAutoSaving THEN [st |-> st, outcome |-> "refused"]
    ELSE IF content = st.lastSavedContent THEN [st |-> MarkClean(st), outcome |-> "same"]
    ELSE [st |-> [st EXCEPT !.isAutoSaving = TRUE,
                            !.savePromise = st.nextId,
                            !.inFlight = @ \cup {[id |-> st.nextId, content |-> content,
                                                  later |-> NullContent]},
                            !.nextId = @ + 1],
          outcome |-> "started"]

\* the callback of setInterval
IntervalFires ==
    /\ autosave.intervalTimer
    /\ Commit(IF /\ Auto.isDirtyFlag
                 /\ Auto.pendingContent # NullContent
                 /\ Auto.pendingContent # Auto.lastSavedContent
              THEN PerformAutosave(Auto, Auto.pendingContent).st
              ELSE Auto)

\* forceSave(content)
ForceSave(content) ==
    LET p == PerformAutosave(Auto, content)
    IN Commit(IF p.outcome = "started"
              THEN [p.st EXCEPT !.forceCalls =
                        @ \cup {[id |-> Auto.nextId,
                                 sameAtCall |-> content = Auto.lastSavedContent]}]
              ELSE [p.st EXCEPT !.forced =
                        [done |-> TRUE, value |-> p.outcome = "same", invoked |-> FALSE,
                         content |-> content, savedBefore |-> Auto.lastSavedContent,
                         sameAtCall |-> content = Auto.lastSavedContent,
                         busyAtCall |-> Auto.isAutoSaving]])

\* the callback of a retry's setTimeout
RetryFires ==
    /\ autosave.retryTimers # << >>
    /\ Commit(PerformAutosave([Auto EXCEPT !.retryTimers = Tail(@),
                                           !.staleTimers = IF @ > 0 THEN @ - 1 ELSE 0],
                              Head(autosave.retryTimers)).st)

\* a flushAndWait call resolves with val
Resolved(st, f, val) ==
    [st EXCEPT !.flushed = [done |-> TRUE, value |-> val, undisturbed |-> f.undisturbed,
                            saving |-> st.inFlight # {}, saved |-> st.lastSavedContent,
                            scheduled |-> st.lastScheduled, invoked |-> f.invoked]]

\* flushAndWait after its wait for the save in flight: pending content is saved now
FlushPending(st, f) ==
    IF st.pendingContent # NullContent /\ st.pendingContent # st.lastSavedContent
    THEN LET p == PerformAutosave(st, st.pendingContent)
         IN IF p.outcome = "started"
            THEN [p.st EXCEPT !.flushers = Append(@, [phase |-> 2, on |-> st.nextId,
                                                      undisturbed |-> f.undisturbed,
                                                      invoked |-> TRUE])]
            ELSE Resolved(p.st, f, p.outcome = "same")
    ELSE Resolved(st, f, TRUE)

\* flushAndWait(): with a save in flight the call waits for its promise.  (The
\* call counts as undisturbed while no save is in flight that an earlier
\* resetAutosave made the module forget, and no scheduleAutosave,
\* cancelAutosave or resetAutosave is called before it resolves.)
FlushAndWait ==
    /\ Len(autosave.flushers) < MaxFlushes
    /\ LET f == [phase |-> 1, on |-> autosave.savePromise,
                 undisturbed |-> \A r \in autosave.inFlight : r.id = autosave.savePromise,
                 invoked |-> FALSE]
       IN Commit(IF autosave.savePromise # 0
                 THEN [Auto EXCEPT !.flushers = Append(@, f)]
                 ELSE FlushPending(Auto, f))

\* the flushAndWait calls woken by a promise, each run to its next await, in
\* the order they started waiting
RECURSIVE Woken(_, _)
Woken(st, fs) ==
    IF fs = << >> THEN st ELSE Woken(FlushPending(st, Head(fs)), Tail(fs))

\* a catch that arms a retry however many there have been
CaughtUnbounded(st, content) ==
    [st EXCEPT !.retryCount = @ + 1, !.retryTimers = Append(@, content)]

\* the catch of performAutosave: a retry is armed while retryCount < MAX_RETRIES
Caught(st, content) ==
    IF st.retryCount < MAX_RETRIES
    THEN [st EXCEPT !.retryCount = @ + 1, !.retryTimers = Append(@, content)]
    ELSE st

\* performAutosave after its await, the save callback having fulfilled (ok) or
\* rejected: the try or the catch, the finally, and then the calls waiting
\* for the promise of this save or for this performAutosave
SaveSettled(st, r, ok) ==
    LET tried == [st EXCEPT !.lastSavedContent = r.content,
                            !.pendingContent = IF @ = r.content THEN NullContent ELSE @,
                            !.isDirtyFlag = IF st.pendingContent = r.content THEN FALSE ELSE @,
                            !.retryCount = 0]
        caught == Caught(st, r.content)
        body == IF ok THEN tried ELSE caught
        finally == [body EXCEPT !.isAutoSaving = FALSE, !.savePromise = 0,
                                !.inFlight = @ \ {r}]
        onPromise == SelectSeq(st.flushers, LAMBDA f : f.phase = 1 /\ f.on = r.id)
        onCall == SelectSeq(st.flushers, LAMBDA f : f.phase = 2 /\ f.on = r.id)
        others == SelectSeq(st.flushers, LAMBDA f : f.on # r.id)
        woken == Woken([finally EXCEPT !.flushers = others], onPromise)
        flushed == IF onCall = << >> THEN woken ELSE Resolved(woken, onCall[1], ok)
        forcing == {c \in st.forceCalls : c.id = r.id}
    IN IF forcing # {}
       THEN [flushed EXCEPT !.forceCalls = @ \ forcing,
                            !.forced = [done |-> TRUE, value |-> ok, invoked |-> TRUE,
                                        content |-> r.content,
                                        savedBefore |-> st.lastSavedContent,
                                        sameAtCall |-> \E c \in forcing : c.sameAtCall,
                                        busyAtCall |-> FALSE]]
       ELSE flushed

\* the promise the save callback returned fulfils
SaveSucceeds ==
    \E r \in autosave.inFlight : Commit(SaveSettled(Auto, r, TRUE))

\* the promise the save callback returned rejects
SaveFails ==
    \E r \in autosave.inFlight : Commit(SaveSettled(Auto, r, FALSE))

\* cancelAutosave(), the module's own state
Cancel(st) == [StopAutosaveInterval(st) EXCEPT !.pendingContent = NullContent]

\* a cancel or a reset ends what was scheduled before it
Forgotten(st) ==
    [st EXCEPT !.lastScheduled = NullContent,
               !.inFlight = {[r EXCEPT !.later = NullContent] : r \in @},
               !.flushers = [i \in DOMAIN @ |-> [@[i] EXCEPT !.undisturbed = FALSE]]]

CancelAutosave == Commit(Forgotten(Cancel(Auto)))

\* resetAutosave(content)
ResetAutosave(content) ==
    Commit(Forgotten([Cancel(Auto) EXCEPT !.lastSavedContent = content,
                                          !.pendingContent = NullContent,
                                          !.isDirtyFlag = FALSE,
                                          !.retryCount = 0,
                                          !.isAutoSaving = FALSE,
                                          !.savePromise = 0,
                                          !.staleTimers = Len(autosave.retryTimers)]))

\* the save callback may be invoked once more
RoomForSave == Reserved(Auto) < MaxSaves

NextAutosave ==
    \/ \E c \in AutosaveContents, h \in BOOLEAN : ScheduleAutosave(c, h)
    \/ RoomForSave /\ IntervalFires
    \/ RoomForSave /\ \E c \in AutosaveContents : ForceSave(c)
    \/ RoomForSave /\ FlushAndWait
    \/ RoomForSave /\ RetryFires
    \/ SaveSucceeds
    \/ SaveFails
    \/ CancelAutosave
    \/ ResetAutosave(<< >>)

SpecAutosave == Init /\ [][NextAutosave]_vars

\* the module driven by the editor alone: contents scheduled, interval ticks,
\* flushes before a document switch, and the saves they start
NextFlush ==
    \/ \E c \in AutosaveContents, h \in BOOLEAN : ScheduleAutosave(c, h)
    \/ RoomForSave /\ IntervalFires
    \/ RoomForSave /\ FlushAndWait
    \/ SaveSucceeds
    \/ SaveFails
    \/ CancelAutosave

SpecFlush == Init /\ [][NextFlush]_vars

\* C27: writes are serialized: at most one invocation of the save callback is
\* in flight at any time, whatever the interleaving of scheduleAutosave,
\* interval ticks, retry timers, forceSave, flushAndWait and resetAutosave
C27_OneSaveInFlight ==
    Cardinality(autosave.inFlight) <= 1


\* the saves whose callback is invoked in the step
StartedInStep ==
    {r \in autosave'.inFlight : \A q \in autosave.inFlight : q.id # r.id}

\* the saves whose callback settles in the step
SettledInStep ==
    {r \in autosave.inFlight : \A q \in autosave'.inFlight : q.id # r.id}

\* C28: an interval tick invokes the save callback at most once, and with the
\* content of the latest scheduleAutosave call made before the tick, never
\* with a content scheduled earlier in the interval; scheduleAutosave itself
\* invokes nothing, so no save happens before the first tick
C28_TickSavesLatestScheduled ==
    [][/\ IntervalFires =>
              /\ Cardinality(StartedInStep) <= 1
              /\ \A r \in StartedInStep : r.content = autosave.lastScheduled
       /\ (\E c \in AutosaveContents, h \in BOOLEAN : ScheduleAutosave(c, h))
              => StartedInStep = {}]_vars

\* what flushAndWait resolved with, for an undisturbed call: no save is in flight,
\* and if it resolved with true the last saved content is the content of the
\* most recent scheduleAutosave call
FlushedSafely ==
    (autosave.flushed.done /\ autosave.flushed.undisturbed)
        => /\ ~autosave.flushed.saving
           /\ (autosave.flushed.value /\ autosave.flushed.scheduled # NullContent)
                  => autosave.flushed.saved = autosave.flushed.scheduled

\* a flushAndWait call with no save to wait for: pending content goes to the
\* save callback in the call itself, and with nothing pending the call
\* resolves with true and the save callback is not invoked
FlushesAtOnce ==
    (FlushAndWait /\ autosave.savePromise = 0)
        => IF pendingContent # NullContent /\ pendingContent # lastSavedContent
           THEN \E r \in StartedInStep : r.content = pendingContent
           ELSE /\ autosave'.flushed.done /\ autosave'.flushed.value
                /\ StartedInStep = {}

\* C29: flushAndWait does not resolve while a save is in flight, saves pending
\* content at once without waiting for a tick, leaves lastSavedContent equal to
\* the content of the most recent scheduleAutosave call whenever it resolves
\* with true (no cancelAutosave or resetAutosave in between), and with nothing
\* pending resolves with true without invoking the save callback
C29_FlushLosesNothing ==
    []FlushedSafely /\ [][FlushesAtOnce]_vars

\* C30: content scheduled while a save is in flight is not lost: when the save
\* of v1 completes and v2 was scheduled in the meantime, the document stays
\* dirty and v2 stays pending (so that a later tick or flush passes it to the
\* save callback)
C30_ScheduledDuringSaveStaysPending ==
    [][\A r \in SettledInStep :
           (r.later # NullContent /\ r.later # r.content)
               => (autosave'.isDirtyFlag /\ pendingContent' = r.later)]_vars


\* ------------------------------------------------------ autosave: retries

\* one save request on a module whose interval is stopped: resetAutosave as
\* the tests' beforeEach does, then one forceSave, the attempts it leads to,
\* and calls that start no save of their own
NoRequestYet == autosave.nextId = 1

RoomForAttempt == Reserved(Auto) < MaxAttempts

NextRetry ==
    \/ NoRequestYet /\ \E c \in AutosaveContents : ResetAutosave(c)
    \/ NoRequestYet /\ \E c \in AutosaveContents : ForceSave(c)
    \/ RoomForAttempt /\ RetryFires
    \/ SaveSucceeds
    \/ SaveFails
    \/ CancelAutosave
    \/ RoomForAttempt /\ FlushAndWait
    \/ Tick

SpecRetry == Init /\ [][NextRetry]_vars

\* the number of times the save callback has been invoked
Invocations == autosave.nextId - 1

\* nothing of the request is left: no save in flight and no retry timer set
Quiescent == autosave.inFlight = {} /\ autosave.retryTimers = << >>

\* C31: retries are bounded: one save request invokes the save callback at
\* most 1 + MAX_RETRIES times; when every attempt failed and nothing is left
\* of the request it was invoked exactly 1 + MAX_RETRIES times; and once an
\* attempt has succeeded no further attempt is made (a request that succeeds
\* on its third attempt has invoked it exactly 3 times)
C31_RetriesBounded ==
    /\ Invocations <= 1 + MAX_RETRIES
    /\ (Invocations > 0 /\ Quiescent /\ autosave.retryCount > 0)
           => Invocations = 1 + MAX_RETRIES
    /\ (Invocations > 0 /\ autosave.retryCount = 0) => (autosave.inFlight # {} \/ Quiescent)

\* every attempt failed, the callback was invoked four times and nothing is left
C31_Witness ==
    Invocations = 1 + MAX_RETRIES /\ Quiescent /\ autosave.retryCount = MAX_RETRIES


\* isDirty(), hasPendingSave() and getLastSavedContent() in the state after the step
IsDirtyAfter == autosave'.isDirtyFlag

HasPendingSaveAfter ==
    autosave'.isDirtyFlag \/ autosave'.isAutoSaving \/ autosave'.savePromise # 0

\* C32: resetAutosave(c) cancels everything pending: right after it isDirty()
\* and hasPendingSave() are false and getLastSavedContent() is c, and no retry
\* (or interval save) set up before the reset invokes the save callback
\* afterwards
C32_ResetCancelsPending ==
    [][/\ \A c \in AutosaveContents :
              ResetAutosave(c) => (~IsDirtyAfter /\ ~HasPendingSaveAfter
                                   /\ lastSavedContent' = c)
       /\ (RetryFires /\ autosave.staleTimers > 0) => StartedInStep = {}]_vars


\* what forceSave resolves with when the save callback was invoked: true and
\* lastSavedContent = c if it fulfilled, false and lastSavedContent as it was
\* if it rejected
ForcedOutcome ==
    (autosave.forced.done /\ autosave.forced.invoked)
        => IF autosave.forced.value
           THEN lastSavedContent = autosave.forced.content
           ELSE lastSavedContent = autosave.forced.savedBefore

\* C33 as stated: forceSave(c) resolves true when the save callback succeeds
\* (then lastSavedContent = c), false when it rejects (lastSavedContent
\* unchanged), and true without invoking the callback whenever c equals
\* lastSavedContent
C33_ForceSaveOutcome ==
    /\ ForcedOutcome
    /\ (autosave.forced.done /\ autosave.forced.sameAtCall)
           => (autosave.forced.value /\ ~autosave.forced.invoked)

\* C33 as the code has it: the same, the third case holding when no save is
\* in progress at the call
C33_ForceSaveOutcomeWhenIdle ==
    /\ ForcedOutcome
    /\ (autosave.forced.done /\ autosave.forced.sameAtCall /\ ~autosave.forced.busyAtCall)
           => (autosave.forced.value /\ ~autosave.forced.invoked)

\* forceSave of the last saved content, no save in progress, has resolved
C33_Witness ==
    /\ autosave.forced.done
    /\ autosave.forced.sameAtCall
    /\ ~autosave.forced.busyAtCall
    /\ autosave.forced.value
    /\ autosave.nextId > 1

\* ---------------------------------------------------------------------------
\* switching documents (app.js, autosave.js, editor.js)
\* ---------------------------------------------------------------------------

MaxEdits == 2
MaxOpens == 2
MaxWrites == 2

DeskStep(d) ==
    /\ desk' = d
    /\ UNCHANGED <<recVars, now, callerVars, appVars, chainVars, fmtVars, currentFileHandle,
                   pendingAutoCreate, pendingContent, lastSavedContent, persisted, autosave,
                   validated, viewer>>

\* app.js performAutosave: the copy of currentDocument with the current session replaced
\* or added
WithSession(document, id, of) ==
    LET at == {i \in 1..Len(document.sessions) : document.sessions[i].id = id}
        session == [id |-> id, of |-> of]
    IN  IF at # {}
        THEN [document EXCEPT !.sessions =
                  [i \in 1..Len(document.sessions) |->
                      IF i \in at THEN session ELSE document.sessions[i]]]
        ELSE [document EXCEPT !.sessions = Append(@, session)]

\* autosave.js: a save that succeeded
DeskSaved(d, content) ==
    [d EXCEPT !.lastSavedContent = content,
              !.pendingContent = IF @ = content THEN NoPending ELSE @,
              !.isAutoSaving = FALSE]

\* autosave.js performAutosave(content) calling app.js performAutosave(content), up to the
\* await of finalizeDocument
SaveCallback(d, content) ==
    IF d.isAutoSaving \/ content = d.lastSavedContent
    THEN d
    ELSE IF d.currentFileHandle = NoHandle \/ ~d.workHasBegun \/ ~d.recorded
         THEN DeskSaved(d, content)
         ELSE [d EXCEPT !.isAutoSaving = TRUE,
                        !.invoked = @ + 1,
                        !.saves = Append(@,
                            [docToSave |-> WithSession(d.currentDocument, d.currentSessionId,
                                                       d.currentFileHandle),
                             content |-> content,
                             phase |-> "finalizing",
                             target |-> NoHandle])]

\* app.js handleEditorChange with a file open: the edit is recorded and scheduled
HandleEditorChange ==
    /\ desk.currentFileHandle # NoHandle
    /\ desk.edits < MaxEdits
    /\ LET content == [of |-> desk.currentFileHandle, v |-> desk.edits + 1]
       IN  DeskStep([desk EXCEPT !.workHasBegun = TRUE,
                                 !.recorded = TRUE,
                                 !.content = content,
                                 !.pendingContent = content,
                                 !.edits = @ + 1])

\* autosave.js: the interval fires
DeskIntervalFires ==
    /\ desk.pendingContent # NoPending
    /\ ~desk.isAutoSaving
    /\ desk.invoked < MaxWrites
    /\ DeskStep(SaveCallback(desk, desk.pendingContent))

\* app.js performAutosave after finalizeDocument: saveFileToVault is called with the
\* currentFileHandle of this moment
Finalized(i) ==
    /\ i \in 1..Len(desk.saves)
    /\ desk.saves[i].phase = "finalizing"
    /\ DeskStep([desk EXCEPT !.saves[i].phase = "writing",
                             !.saves[i].target = desk.currentFileHandle,
                             !.saves[i].docToSave.finalContent = desk.saves[i].content])

\* saveFileToVault closes the file; app.js performAutosave then assigns currentDocument
Written(i) ==
    /\ i \in 1..Len(desk.saves)
    /\ desk.saves[i].phase = "writing"
    /\ LET save == desk.saves[i]
           d == [desk EXCEPT !.files[save.target] = save.docToSave,
                             !.currentDocument = save.docToSave,
                             !.saves = RemoveAt(@, i)]
       IN  DeskStep(DeskSaved(d, save.content))

\* saveFileToVault rejects; autosave.js arms a retry for the content
WriteFails(i) ==
    /\ i \in 1..Len(desk.saves)
    /\ desk.saves[i].phase = "writing"
    /\ DeskStep([desk EXCEPT !.saves = RemoveAt(@, i),
                             !.isAutoSaving = FALSE,
                             !.retryTimers = Append(@, desk.saves[i].content)])

\* autosave.js: a retry timer fires
DeskRetryFires ==
    /\ desk.retryTimers # << >>
    /\ desk.invoked < MaxWrites
    /\ DeskStep(SaveCallback([desk EXCEPT !.retryTimers = Tail(@)], Head(desk.retryTimers)))

\* app.js handleFileSelectFromSidebar(fileHandle), ending in resetAutosave
HandleFileSelectFromSidebar(f) ==
    /\ desk.opened < MaxOpens
    /\ f # desk.currentFileHandle
    /\ LET doc1 == desk.files[f]
       IN  DeskStep([desk EXCEPT !.currentDocument = doc1,
                                 !.currentFileHandle = f,
                                 !.workHasBegun = FALSE,
                                 !.content = doc1.finalContent,
                                 !.currentSessionId = <<"new", desk.opened + 1>>,
                                 !.recorded = FALSE,
                                 !.pendingContent = NoPending,
                                 !.lastSavedContent = doc1.finalContent,
                                 !.opened = @ + 1])

NextDesk ==
    \/ HandleEditorChange
    \/ DeskIntervalFires
    \/ \E i \in 1..MaxWrites : Finalized(i)
    \/ \E i \in 1..MaxWrites : Written(i)
    \/ \E i \in 1..MaxWrites : WriteFails(i)
    \/ DeskRetryFires
    \/ \E f \in Files : HandleFileSelectFromSidebar(f)

SpecDesk == Init /\ [][NextDesk]_vars

OfDocument(document, f) ==
    /\ document.finalContent.of = f
    /\ \A i \in 1..Len(document.sessions) : document.sessions[i].of = f
    /\ \E i \in 1..Len(document.sessions) : document.sessions[i] = StoredSession(f)

\* C36: a save never crosses documents: the file of each document holds only that
\* document's content and sessions, its stored sessions among them, and the document
\* that is open is the one of the open file
C36_SaveNeverCrossesDocuments ==
    /\ \A f \in Files : OfDocument(desk.files[f], f)
    /\ desk.currentFileHandle # NoHandle
           => OfDocument(desk.currentDocument, desk.currentFileHandle)

\* ---------------------------------------------------------------------------
\* stale saves (autosave.js)
\* ---------------------------------------------------------------------------

\* the user types without deleting: each scheduled content is longer than the one
\* scheduled before it, so that of two contents the shorter is the older
Newer(c) ==
    \/ autosave.lastScheduled = NullContent
    \/ Len(c) > Len(autosave.lastScheduled)

NextStale ==
    \/ \E c \in AutosaveContents : Newer(c) /\ ScheduleAutosave(c, TRUE)
    \/ RoomForAttempt /\ IntervalFires
    \/ RoomForAttempt /\ RetryFires
    \/ SaveSucceeds
    \/ SaveFails

SpecStale == Init /\ [][NextStale]_vars

\* C37: saves are never stale: the save callback is never invoked with content older
\* than the content already saved, and the saved content never goes back to an older one
C37_SavesNeverStale ==
    /\ [](\A r \in autosave.inFlight : Len(r.content) >= Len(lastSavedContent))
    /\ [][Len(lastSavedContent') >= Len(lastSavedContent)]_vars

\* ---------------------------------------------------------------------------
\* edits that return to the saved content (autosave.js)
\* ---------------------------------------------------------------------------

NextRevert ==
    \/ \E c \in AutosaveContents, h \in BOOLEAN : ScheduleAutosave(c, h)
    \/ RoomForSave /\ IntervalFires
    \/ SaveSucceeds
    \/ SaveFails

SpecRevert == Init /\ [][NextRevert]_vars

\* C38: clean means in sync: when isDirty() is false and no save is in flight, the last
\* saved content is the content of the most recent scheduleAutosave call made with a
\* file handle
C38_CleanMeansInSync ==
    (/\ ~autosave.isDirtyFlag
     /\ autosave.inFlight = {}
     /\ autosave.lastScheduled # NullContent)
        => lastSavedContent = autosave.lastScheduled

\* ---------------------------------------------------------------------------
\* validate on parsed objects (format.js, hasher.js)
\* ---------------------------------------------------------------------------

\* what a parsed object holds as its sessions property when that is not an array
SessionsValues == {JUndefined, JNull, JStr(<< >>), JStr(<<97>>), JNum(1), JObj(<< >>)}

\* for (const session of val) iterates val
Iterable(val) == val[1] \in {"arr", "str"}

SessionsError == ValidationError("Missing or invalid sessions array", << >>, NullPos)

\* the object of document d with sessions as its sessions property
WithSessions(d, sessions) ==
    IF sessions = JUndefined THEN Without(DocObject(d), "sessions")
    ELSE With(DocObject(d), "sessions", sessions)

\* validate(document) for the object of d with sessions as its sessions property:
\* verifyProvenanceFile iterates the property whatever it is; the characters of a
\* string have no events and verify as empty sessions
ValidateObject(d, sessions) ==
    IF sessions[1] = "arr"
    THEN [threw |-> FALSE, valid |-> ValidateErrors(d) = << >>, errors |-> ValidateErrors(d)]
    ELSE IF ~Iterable(sessions)
         THEN [threw |-> TRUE, valid |-> FALSE, errors |-> << >>]
         ELSE LET rest == ValidateErrors([d EXCEPT !.sessions = << >>])
                  mismatch(e) == e.kind = "Final content hash mismatch"
                  errors == SelectSeq(rest, LAMBDA e : ~mismatch(e)) \o <<SessionsError>>
                            \o SelectSeq(rest, mismatch)
              IN [threw |-> FALSE, valid |-> FALSE, errors |-> errors]

\* the documents whose objects are validated
ValidatedDocuments ==
    {[CreateProvenanceDocument(Untitled) EXCEPT !.version = v, !.sessions = ss,
                                                !.finalContent = c, !.contentHash = h] :
        v \in {FORMAT_VERSION, << >>},
        ss \in {<< >>} \cup
               {<<[id |-> <<115, 49>>, startTime |-> ToISOString(0), endTime |-> ToISOString(0),
                   baseContent |-> << >>, events |-> evs]>> : evs \in SessionEventLists},
        c \in FinalContents,
        h \in ReplacementHashes \cup {Sha256(<<97>>)}}

ValidateParsed(d, sessions) ==
    /\ validated' = [done |-> TRUE, object |-> WithSessions(d, sessions)]
                        @@ ValidateObject(d, sessions)
    /\ UNCHANGED <<recVars, now, callerVars, appVars, chainVars, fmtVars, currentFileHandle,
                   pendingAutoCreate, pendingContent, lastSavedContent, persisted, autosave,
                   desk, viewer>>

NextValidate ==
    \/ \E d \in ValidatedDocuments :
           \E sessions \in SessionsValues \cup {Get(DocObject(d), "sessions")} :
               ValidateParsed(d, sessions)
    \/ Tick

SpecValidate == Init /\ [][NextValidate]_vars

\* C39: validate reports structural problems as errors instead of failing: it does not
\* throw, and for an object whose sessions property is missing or is not an array it
\* returns valid = false with the error of the sessions array among its errors
C39_ValidateReportsStructuralErrors ==
    validated.done =>
        /\ ~validated.threw
        /\ Get(validated.object, "sessions")[1] # "arr"
               => ~validated.valid /\ SessionsError \in Range(validated.errors)

\* ---------------------------------------------------------------------------
\* replay in the viewer
\* ---------------------------------------------------------------------------

ViewerStep(v) ==
    /\ viewer' = v
    /\ UNCHANGED <<recVars, now, callerVars, appVars, chainVars, fmtVars, currentFileHandle,
                   pendingAutoCreate, pendingContent, lastSavedContent, persisted, autosave,
                   desk, validated>>

\* the edits of the sessions loaded into the viewer, before their timestamps
ViewerEvents ==
    { [type |-> EventType.INSERT, position |-> 0, content |-> <<97>>],
      [type |-> EventType.INSERT, position |-> 1, content |-> <<98>>],
      [type |-> EventType.DELETE, position |-> 0, content |-> <<97>>] }

\* the sessions of the documents loaded: one session, its events in recording order,
\* the session start first
ViewerSessions ==
    { [id |-> <<115, 49>>, baseContent |-> base,
       events |-> [i \in 1..(Len(es) + 1) |->
                      (IF i = 1
                       THEN [type |-> EventType.SESSION_START, position |-> NullPos,
                             content |-> NullContent]
                       ELSE es[i - 1]) @@ [timestamp |-> i]]] :
          base \in {<< >>, <<98>>},
          es \in UNION {[1..m -> ViewerEvents] : m \in 0..(MaxEvents - 1)} }

\* Array.prototype.sort by timestamp, stable
RECURSIVE SortByTimestamp(_)
SortByTimestamp(evs) ==
    IF evs = << >> THEN << >>
    ELSE LET sorted == SortByTimestamp(SubSeq(evs, 1, Len(evs) - 1))
             e == evs[Len(evs)]
             before == SelectSeq(sorted, LAMBDA x : x.timestamp <= e.timestamp)
             after == SelectSeq(sorted, LAMBDA x : x.timestamp > e.timestamp)
         IN before \o <<e>> \o after

FlattenEvents(sessions) ==
    LET Tagged(session) ==
            [i \in DOMAIN session.events |->
                session.events[i] @@ [sessionId |-> session.id,
                                      sessionBaseContent |-> session.baseContent]]
        RECURSIVE Pushed(_)
        Pushed(ss) == IF ss = << >> THEN << >> ELSE Tagged(Head(ss)) \o Pushed(Tail(ss))
    IN SortByTimestamp(Pushed(sessions))

PausePlayback(v) == [v EXCEPT !.isPlaying = FALSE, !.playbackTimer = FALSE]

ResetPlayback(v) ==
    [PausePlayback(v) EXCEPT !.currentEventIndex = 0, !.replayContent = << >>]

\* scheduleNextEvent(): applies flatEvents[currentEventIndex] and arms the timer when
\* an event follows it
ScheduleNextEvent(v) ==
    IF ~v.isPlaying \/ v.currentEventIndex >= Len(v.flatEvents)
    THEN PausePlayback(v)
    ELSE LET currentEvent == v.flatEvents[v.currentEventIndex + 1]
         IN [v EXCEPT !.replayContent =
                          ApplyEvent(@, currentEvent, currentEvent.sessionBaseContent),
                      !.currentEventIndex = @ + 1,
                      !.playbackTimer = v.currentEventIndex + 2 <= Len(v.flatEvents)]

\* loadProvenanceFile(doc): flattenEvents, then resetPlayback
LoadProvenanceFile(sessions) ==
    /\ viewer.flatEvents = << >>
    /\ ViewerStep(ResetPlayback([viewer EXCEPT !.flatEvents = FlattenEvents(sessions)]))

\* the play button, enabled while playback is paused
StartPlayback ==
    /\ ~viewer.isPlaying
    /\ LET v == IF viewer.currentEventIndex >= Len(viewer.flatEvents) - 1
                THEN ResetPlayback(viewer) ELSE viewer
       IN ViewerStep(ScheduleNextEvent([v EXCEPT !.isPlaying = TRUE]))

\* the timeout of scheduleNextEvent
PlaybackTimerFires ==
    /\ viewer.playbackTimer
    /\ ViewerStep(ScheduleNextEvent([viewer EXCEPT !.playbackTimer = FALSE]))

\* the pause button
Pause ==
    /\ viewer.isPlaying
    /\ ViewerStep(PausePlayback(viewer))

\* seekToEvent(targetIndex), from the progress slider
SeekToEvent(targetIndex) ==
    /\ targetIndex \in 0..(Len(viewer.flatEvents) - 1)
    /\ LET Rebuilt[i \in 0..(targetIndex + 1)] ==
               IF i = 0 THEN << >>
               ELSE ApplyEvent(Rebuilt[i - 1], viewer.flatEvents[i],
                               viewer.flatEvents[i].sessionBaseContent)
       IN ViewerStep([PausePlayback(viewer) EXCEPT !.replayContent = Rebuilt[targetIndex + 1],
                                                   !.currentEventIndex = targetIndex])

NextViewer ==
    \/ \E session \in ViewerSessions : LoadProvenanceFile(<<session>>)
    \/ StartPlayback
    \/ PlaybackTimerFires
    \/ Pause
    \/ \E i \in 0..(MaxEvents - 1) : SeekToEvent(i)

SpecViewer == Init /\ [][NextViewer]_vars

\* the content after the first k events of the flattened list, each applied once, in order
RECURSIVE FirstEventsApplied(_)
FirstEventsApplied(k) ==
    IF k = 0 THEN << >>
    ELSE ApplyEvent(FirstEventsApplied(k - 1), viewer.flatEvents[k],
                    viewer.flatEvents[k].sessionBaseContent)

\* C40: replay is position-consistent: the displayed content is always the content
\* after the first k events of the flattened list for some k, and when playback has
\* run to its end the last event has been applied
C40_ReplayPositionConsistent ==
    /\ \E k \in 0..Len(viewer.flatEvents) : viewer.replayContent = FirstEventsApplied(k)
    /\ (viewer.isPlaying /\ ~viewer.playbackTimer)
           => viewer.replayContent = FirstEventsApplied(Len(viewer.flatEvents))

====
